---- MODULE Spec2Model ----
(***************************************************************************)
(* Model of the container classes of this repository.                      *)
(*                                                                         *)
(* AVLMap<K,T> (src/Ordered_map_via_Avl.cpp): the heap of AVLNode objects  *)
(* is the function `nodes` from addresses to records of the node's fields, *)
(* `live` is the set of addresses currently allocated, `root` and          *)
(* `avlSize` are the two members of the map.  Every public method is one   *)
(* action; the private helpers (findNode, pluckNode, fixUp, rotateLeft,    *)
(* rotateRight, recalcHeight, childHeights) are operators over a record    *)
(* holding the map and its heap, written statement by statement.           *)
(* A failed assert() aborts the program: `aborted` names the assertion and *)
(* no action is enabled afterwards.                                        *)
(* An AVLIterator is a value (one pointer); its methods are operators on   *)
(* the heap, and printTree, the traversal the program runs, is an action.  *)
(*                                                                         *)
(* LinkedList<T> (src/Linked_list.cpp): two lists share the heap           *)
(* `listNodes`; every public method is one action of ListSpec, and a       *)
(* failed assert() is recorded in `listAborted`.                           *)
(*                                                                         *)
(* HashTable<T> (src/unnamed/part_000) with T = StudentRecord: every       *)
(* bucket is a LinkedList<T>; the table keeps no pointer into a bucket     *)
(* from one call to the next, so a bucket is the sequence of the items of  *)
(* its nodes from first to last and a node is a position of it.  Every     *)
(* public method is one action of HashSpec.                                *)
(*                                                                         *)
(* DynamicArray<T> (src/unnamed/part_001) with T = int: `array` is the     *)
(* allocation, a function from the indices 0..arraySize-1 to the ints in   *)
(* the slots.  Every public method is one action of ArraySpec; a failed    *)
(* assert() and an access outside the allocation stop the program and are  *)
(* recorded in `arrayAborted`.                                             *)
(***************************************************************************)
EXTENDS Integers, Sequences, FiniteSets, TLC

\* ------------------------------------------------------------------ bounds
\* keys are 1..MaxKey (K is totally ordered by <)
MaxKey == 5
\* items are 0..MaxItem; 0 is T() for T = int
MaxItem == 1

Keys == 1..MaxKey
Items == 0..MaxItem

\* the heap holds at most MaxNodes nodes at a time
MaxNodes == 7

\* the null pointer
NULL == 0
\* the addresses new can return
NodeIds == 1..MaxNodes

VARIABLES nodes, live, root, avlSize, aborted

\* the heap of ListNode objects holds at most MaxListNodes nodes at a time
MaxListNodes == 4

\* the addresses new ListNode can return
ListNodeIds == 1..MaxListNodes

\* the LinkedList objects of the program
ListNames == <<"list", "listCopy">>

Lists == {ListNames[i] : i \in 1..Len(ListNames)}

\* LinkedList<T> (src/Linked_list.cpp): listNodes is the heap of ListNode
\* objects, listLive the addresses allocated, lists the members first, last
\* and listSize of every list, listAborted the assertion that stopped the
\* program ("none" while it runs)
VARIABLES listNodes, listLive, lists, listAborted

\* student ids are 0..MaxId
MaxId == 10
\* grades are 0..MaxGrade
MaxGrade == 1
\* HashTable<StudentRecord> (src/unnamed/part_000): table is the array of
\* buckets, numItems and tableSize the two counters of the table,
\* hashAborted the assertion that stopped the program ("none" while it runs)
VARIABLES table, numItems, tableSize, hashAborted

\* the array holds at most MaxNumItems items
MaxNumItems == 11
\* and at most MaxNonZero items other than 0
MaxNonZero == 1
\* an uninitialized unsigned int holds one of 0..MaxGarbage
MaxGarbage == 11

\* DynamicArray<int> (src/unnamed/part_001): array is the allocation the
\* member array points to, arrayNumItems the member numItems, arraySize the
\* member arraySize, arrayAborted what stopped the program ("none" while
\* it runs)
VARIABLES array, arrayNumItems, arraySize, arrayAborted

\* the call of update, operator[] or remove that is running, when its loops
\* are followed one iteration at a time: the method called (op), its
\* arguments (key, item), the loop it is in (at), and the locals of that
\* loop: node and parent of findNode, node of fixUp, and node, tmp and
\* pluck of remove; `from` records the map the call was made on
VARIABLES frame

avlVars == <<nodes, live, root, avlSize, aborted>>

listVars == <<listNodes, listLive, lists, listAborted>>

hashVars == <<table, numItems, tableSize, hashAborted>>

arrayVars == <<array, arrayNumItems, arraySize, arrayAborted>>

vars == <<nodes, live, root, avlSize, aborted, frame,
          listNodes, listLive, lists, listAborted,
          table, numItems, tableSize, hashAborted,
          array, arrayNumItems, arraySize, arrayAborted>>

\* ------------------------------------------------------------- AVLNode
\* the fields of a node that is not allocated
FreedNode == [key |-> 0, item |-> 0, left |-> NULL, right |-> NULL,
              parent |-> NULL, height |-> 0]

\* mutant of the constructor: the item is not stored
AVLNode_noItem(key, item, left, right, parent, height) ==
    [key |-> key, item |-> 0, left |-> left, right |-> right,
     parent |-> parent, height |-> height]

AVLNode(key, item, left, right, parent, height) ==
    [key |-> key, item |-> item, left |-> left, right |-> right,
     parent |-> parent, height |-> height]

Max(a, b) == IF a >= b THEN a ELSE b

Abs(a) == IF a >= 0 THEN a ELSE -a

\* childHeights: <<lh, rh>>, -1 for a missing child
childHeights(ns, n) ==
    << IF ns[n].left # NULL THEN ns[ns[n].left].height ELSE -1,
       IF ns[n].right # NULL THEN ns[ns[n].right].height ELSE -1 >>

recalcHeight(ns, n) ==
    LET ch == childHeights(ns, n)
    IN  [ns EXCEPT ![n].height = 1 + Max(ch[1], ch[2])]

\* ------------------------------------------------------------- AVLMap
\* the map and its heap as one value, as the helpers see it
Cur == [nodes |-> nodes, live |-> live, root |-> root, avlSize |-> avlSize,
        failed |-> "none"]

\* AVLMap::AVLMap()
EmptyMap == [nodes |-> [n \in NodeIds |-> FreedNode], live |-> {},
             root |-> NULL, avlSize |-> 0, failed |-> "none"]

RECURSIVE findNodeLoop(_, _, _, _)
findNodeLoop(ns, node, parent, key) ==
    IF node # NULL /\ ns[node].key # key
    THEN IF key < ns[node].key
         THEN findNodeLoop(ns, ns[node].left, node, key)
         ELSE findNodeLoop(ns, ns[node].right, node, key)
    ELSE IF node = NULL THEN parent ELSE node

findNode(t, key) == findNodeLoop(t.nodes, t.root, NULL, key)

\* mutant of hasKey: the key of the node found is not compared
hasKey_anyNode(t, key) ==
    findNode(t, key) # NULL

hasKey(t, key) ==
    LET node == findNode(t, key)
    IN  node # NULL /\ ~(t.nodes[node].key # key)

\* The statements of a method are applied to the heap one after the other:
\* each is an operator from the heap before it to the heap after it, and
\* reads the fields as the statements before it left them.

\* mutant of rotateRightLinks: the subtree that changes sides keeps its
\* old parent
rotateRightLinks_staleParent(t, node) ==
    LET lchild == t.nodes[node].left
        p == t.nodes[node].parent
        s1(ns) == IF p # NULL
                  THEN IF node = ns[p].left
                       THEN [ns EXCEPT ![p].left = lchild]
                       ELSE [ns EXCEPT ![p].right = lchild]
                  ELSE ns
        s2(ns) == [ns EXCEPT ![lchild].parent = ns[node].parent]
        s3(ns) == [ns EXCEPT ![node].parent = lchild]
        s5(ns) == [ns EXCEPT ![node].left = ns[lchild].right]
        s6(ns) == [ns EXCEPT ![lchild].right = node]
    IN  [t EXCEPT !.nodes = s6(s5(s3(s2(s1(t.nodes))))),
                  !.root = IF p # NULL THEN t.root ELSE lchild]

\* the pointer assignments of rotateRight, in the order of the code
rotateRightLinks(t, node) ==
    LET lchild == t.nodes[node].left
        p == t.nodes[node].parent
        s1(ns) == IF p # NULL
                  THEN IF node = ns[p].left
                       THEN [ns EXCEPT ![p].left = lchild]
                       ELSE [ns EXCEPT ![p].right = lchild]
                  ELSE ns
        s2(ns) == [ns EXCEPT ![lchild].parent = ns[node].parent]
        s3(ns) == [ns EXCEPT ![node].parent = lchild]
        s4(ns) == IF ns[lchild].right # NULL
                  THEN [ns EXCEPT ![ns[lchild].right].parent = node]
                  ELSE ns
        s5(ns) == [ns EXCEPT ![node].left = ns[lchild].right]
        s6(ns) == [ns EXCEPT ![lchild].right = node]
    IN  [t EXCEPT !.nodes = s6(s5(s4(s3(s2(s1(t.nodes)))))),
                  !.root = IF p # NULL THEN t.root ELSE lchild]

\* first->recalcHeight(); second->recalcHeight();
recalcHeights(t, first, second) ==
    [t EXCEPT !.nodes = recalcHeight(recalcHeight(t.nodes, first), second)]

\* mutant of rotateRight: the heights are recomputed parent first
rotateRight_parentFirst(t, node) ==
    IF t.nodes[node].left = NULL
    THEN [t EXCEPT !.failed = "null dereference"]
    ELSE recalcHeights(rotateRightLinks(t, node), t.nodes[node].left, node)

\* rotateRight: the new map; the returned pointer is the old node->left.
\* (assert(left != NULL) names std::left and never fails; a NULL lchild is
\* dereferenced, which no call of fixUp from a reachable map does)
rotateRight(t, node) ==
    IF t.nodes[node].left = NULL
    THEN [t EXCEPT !.failed = "null dereference"]
    ELSE recalcHeights(rotateRightLinks(t, node), node, t.nodes[node].left)

\* mutant of rotateLeftLinks: the right child is always hung on the left of
\* the former parent
rotateLeftLinks_leftOfParent(t, node) ==
    LET rchild == t.nodes[node].right
        p == t.nodes[node].parent
        s1(ns) == IF p # NULL THEN [ns EXCEPT ![p].left = rchild] ELSE ns
        s2(ns) == [ns EXCEPT ![rchild].parent = ns[node].parent]
        s3(ns) == [ns EXCEPT ![node].parent = rchild]
        s4(ns) == IF ns[rchild].left # NULL
                  THEN [ns EXCEPT ![ns[rchild].left].parent = node]
                  ELSE ns
        s5(ns) == [ns EXCEPT ![node].right = ns[rchild].left]
        s6(ns) == [ns EXCEPT ![rchild].left = node]
    IN  [t EXCEPT !.nodes = s6(s5(s4(s3(s2(s1(t.nodes)))))),
                  !.root = IF p # NULL THEN t.root ELSE rchild]

\* the pointer assignments of rotateLeft, in the order of the code
rotateLeftLinks(t, node) ==
    LET rchild == t.nodes[node].right
        p == t.nodes[node].parent
        s1(ns) == IF p # NULL
                  THEN IF node = ns[p].left
                       THEN [ns EXCEPT ![p].left = rchild]
                       ELSE [ns EXCEPT ![p].right = rchild]
                  ELSE ns
        s2(ns) == [ns EXCEPT ![rchild].parent = ns[node].parent]
        s3(ns) == [ns EXCEPT ![node].parent = rchild]
        s4(ns) == IF ns[rchild].left # NULL
                  THEN [ns EXCEPT ![ns[rchild].left].parent = node]
                  ELSE ns
        s5(ns) == [ns EXCEPT ![node].right = ns[rchild].left]
        s6(ns) == [ns EXCEPT ![rchild].left = node]
    IN  [t EXCEPT !.nodes = s6(s5(s4(s3(s2(s1(t.nodes)))))),
                  !.root = IF p # NULL THEN t.root ELSE rchild]

\* rotateLeft: the new map; the returned pointer is the old node->right
rotateLeft(t, node) ==
    IF t.nodes[node].right = NULL
    THEN [t EXCEPT !.failed = "null dereference"]
    ELSE recalcHeights(rotateLeftLinks(t, node), node, t.nodes[node].right)

\* node = rotateRight(node): <<the map, the new value of node>>
thenRotateRight(t, node) ==
    IF t.failed # "none" THEN <<t, node>>
    ELSE <<rotateRight(t, node), t.nodes[node].left>>

\* node = rotateLeft(node): <<the map, the new value of node>>
thenRotateLeft(t, node) ==
    IF t.failed # "none" THEN <<t, node>>
    ELSE <<rotateLeft(t, node), t.nodes[node].right>>

\* mutant of fixLeftHeavy: the left-right case is not rotated twice
fixLeftHeavy_single(t, node) ==
    thenRotateRight(t, node)

\* the branch lh == rh+2 of fixUp at `node`:
\* <<the map, the node that is now the root of the subtree>>
fixLeftHeavy(t, node) ==
    LET lchild == t.nodes[node].left
        llh == childHeights(t.nodes, lchild)[1]
        lrh == childHeights(t.nodes, lchild)[2]
    IN  thenRotateRight(IF llh < lrh THEN rotateLeft(t, lchild) ELSE t, node)

\* mutant of fixRightHeavy: no rotation
fixRightHeavy_none(t, node) ==
    <<t, node>>

\* the branch lh+2 == rh of fixUp at `node`, the mirror image
fixRightHeavy(t, node) ==
    LET rchild == t.nodes[node].right
        rlh == childHeights(t.nodes, rchild)[1]
        rrh == childHeights(t.nodes, rchild)[2]
    IN  thenRotateLeft(IF rlh > rrh THEN rotateRight(t, rchild) ELSE t, node)

RECURSIVE fixUp(_, _)

\* the end of the loop body of fixUp: node = node->parent, and on
climbFrom(r) ==
    IF r[1].failed # "none" THEN r[1]
    ELSE fixUp(r[1], r[1].nodes[r[2]].parent)

\* the loop body of fixUp after node->recalcHeight()
fixUpAt(t, node) ==
    LET lh == childHeights(t.nodes, node)[1]
        rh == childHeights(t.nodes, node)[2]
    IN  IF ~(Abs(lh - rh) <= 2)
        THEN [t EXCEPT !.failed = "fixUp: abs(lh-rh) <= 2"]
        ELSE climbFrom(IF lh = rh + 2 THEN fixLeftHeavy(t, node)
                       ELSE IF lh + 2 = rh THEN fixRightHeavy(t, node)
                       ELSE <<t, node>>)

fixUp(t, node) ==
    IF node = NULL \/ t.failed # "none" THEN t
    ELSE fixUpAt([t EXCEPT !.nodes = recalcHeight(t.nodes, node)], node)

\* the address new returns: any address not allocated; the model takes the
\* lowest one
NewAddress(t) == CHOOSE n \in NodeIds \ t.live :
                     \A m \in NodeIds \ t.live : n <= m

\* the insertion branch of update: a new leaf under `node` (the node
\* findNode returned), then fixUp from the leaf
insertNode(t, node, key, item) ==
    LET newNode == NewAddress(t)
        s1(ns) == [ns EXCEPT
                     ![newNode] = AVLNode(key, item, NULL, NULL, node, 0)]
        s2(ns) == IF node = NULL THEN ns
                  ELSE IF key < ns[node].key
                       THEN [ns EXCEPT ![node].left = newNode]
                       ELSE [ns EXCEPT ![node].right = newNode]
    IN  IF NodeIds \ t.live = {}
        THEN [t EXCEPT !.failed = "bad_alloc"]
        ELSE fixUp([t EXCEPT !.nodes = s2(s1(t.nodes)),
                             !.live = t.live \cup {newNode},
                             !.root = IF node = NULL THEN newNode ELSE t.root,
                             !.avlSize = t.avlSize + 1],
                   newNode)

\* mutant of update: the key is inserted without looking for its node
update_alwaysInsert(t, key, item) ==
    insertNode(t, findNode(t, key), key, item)

update(t, key, item) ==
    LET node == findNode(t, key)
    IN  IF node = NULL \/ t.nodes[node].key # key
        THEN insertNode(t, node, key, item)
        ELSE [t EXCEPT !.nodes[node].item = item]

\* mutant of spliceOut: the child does not get its new parent
spliceOut_noReparent(t, node) ==
    LET child == IF t.nodes[node].left # NULL THEN t.nodes[node].left
                 ELSE t.nodes[node].right
        p == t.nodes[node].parent
        s1(ns) == IF p = NULL THEN ns
                  ELSE IF ns[p].left = node
                       THEN [ns EXCEPT ![p].left = child]
                       ELSE [ns EXCEPT ![p].right = child]
    IN  [t EXCEPT !.nodes = s1(t.nodes),
                  !.root = IF p = NULL THEN child ELSE t.root]

\* mutant of spliceOut: the root is not replaced when the root is detached
spliceOut_keepRoot(t, node) ==
    LET child == IF t.nodes[node].left # NULL THEN t.nodes[node].left
                 ELSE t.nodes[node].right
        p == t.nodes[node].parent
        s1(ns) == IF p = NULL THEN ns
                  ELSE IF ns[p].left = node
                       THEN [ns EXCEPT ![p].left = child]
                       ELSE [ns EXCEPT ![p].right = child]
        s2(ns) == IF child # NULL
                  THEN [ns EXCEPT ![child].parent = ns[node].parent]
                  ELSE ns
    IN  [t EXCEPT !.nodes = s2(s1(t.nodes))]

\* the first half of pluckNode: the only child of `node` (if any) takes its
\* place under its parent
spliceOut(t, node) ==
    LET child == IF t.nodes[node].left # NULL THEN t.nodes[node].left
                 ELSE t.nodes[node].right
        p == t.nodes[node].parent
        s1(ns) == IF p = NULL THEN ns
                  ELSE IF ns[p].left = node
                       THEN [ns EXCEPT ![p].left = child]
                       ELSE [ns EXCEPT ![p].right = child]
        s2(ns) == IF child # NULL
                  THEN [ns EXCEPT ![child].parent = ns[node].parent]
                  ELSE ns
    IN  [t EXCEPT !.nodes = s2(s1(t.nodes)),
                  !.root = IF p = NULL THEN child ELSE t.root]

\* the second half of pluckNode: node->left = node->right = NULL;
\* delete node; --avlSize
deleteNode(t, node) ==
    [t EXCEPT !.nodes[node] = FreedNode,
              !.live = t.live \ {node},
              !.avlSize = t.avlSize - 1]

\* mutant of pluckNode: avlSize is not decremented
pluckNode_noDecrement(t, node) ==
    IF t.nodes[node].left # NULL /\ ~(t.nodes[t.nodes[node].left].right = NULL)
    THEN [t EXCEPT !.failed = "pluckNode: child->right == NULL"]
    ELSE [deleteNode(spliceOut(t, node), node) EXCEPT !.avlSize = t.avlSize]

pluckNode(t, node) ==
    IF t.nodes[node].left # NULL /\ ~(t.nodes[t.nodes[node].left].right = NULL)
    THEN [t EXCEPT !.failed = "pluckNode: child->right == NULL"]
    ELSE deleteNode(spliceOut(t, node), node)

\* mutant of the loop of remove: the node of the key itself is taken
maxOfLeft_none(ns, tmp, pluck) ==
    pluck

\* mutant of the loop of remove: the left child itself is taken
maxOfLeft_leftChild(ns, tmp, pluck) ==
    IF tmp # NULL THEN tmp ELSE pluck

\* the loop of remove: the last node of the right spine that starts at tmp,
\* or pluck when tmp is NULL
RECURSIVE maxOfLeft(_, _, _)
maxOfLeft(ns, tmp, pluck) ==
    IF tmp # NULL THEN maxOfLeft(ns, ns[tmp].right, tmp) ELSE pluck

\* mutant of the assertion of remove: only the pointer is checked
removeAssertion_nodeOnly(t, node, key) ==
    node # NULL

\* the condition remove asserts
removeAssertion(t, node, key) ==
    node # NULL /\ ~(t.nodes[node].key < key \/ key < t.nodes[node].key)

\* mutant of the copy in remove: the item is not copied
copyContents_keyOnly(ns, node, pluck) ==
    [ns EXCEPT ![node].key = ns[pluck].key]

\* node->key = pluck->key; node->item = pluck->item
copyContents(ns, node, pluck) ==
    LET s1(n0) == [n0 EXCEPT ![node].key = n0[pluck].key]
        s2(n1) == [n1 EXCEPT ![node].item = n1[pluck].item]
    IN  s2(s1(ns))

\* the end of remove, from pluckParent = pluck->parent on
pluckAndFixUp(t, pluck) ==
    fixUp(pluckNode(t, pluck), t.nodes[pluck].parent)

remove(t, key) ==
    LET node == findNode(t, key)
        pluck == maxOfLeft(t.nodes, t.nodes[node].left, node)
    IN  IF ~removeAssertion(t, node, key)
        THEN [t EXCEPT !.failed = "remove: key is in the tree"]
        ELSE pluckAndFixUp(
                 [t EXCEPT !.nodes = copyContents(t.nodes, node, pluck)],
                 pluck)

\* return findNode(key)->item: <<the map, the node whose item is referred to>>
itemRef(t, key) ==
    <<t, IF t.failed = "none" THEN findNode(t, key) ELSE NULL>>

\* mutant of operator[]: the entry is not created when the key is absent
index_noCreate(t, key) ==
    itemRef(t, key)

\* operator[]: <<the map, the node whose item the returned reference names>>
index(t, key) ==
    itemRef(IF ~hasKey(t, key) THEN update(t, key, 0) ELSE t, key)

\* the value of the reference r = <<map, node>> that operator[] returned
itemAt(r) == <<r[1], IF r[2] = NULL THEN 0 ELSE r[1].nodes[r[2]].item>>

\* mutant of at: the entry is created when absent, as operator[] does
at_creating(t, key) ==
    itemAt(index(t, key))

\* at: <<the map, the item returned>>
at(t, key) ==
    LET node == findNode(t, key)
    IN  IF ~(node # NULL /\ ~(t.nodes[node].key # key))
        THEN <<[t EXCEPT !.failed = "at: key is in the tree"], 0>>
        ELSE <<t, t.nodes[node].item>>

size(t) == t.avlSize

\* ------------------------------------------- the loops, one iteration each
\* no call is running
NoCall == [op |-> "none", key |-> 0, item |-> 0, at |-> "main",
           node |-> NULL, parent |-> NULL, tmp |-> NULL, pluck |-> NULL,
           from |-> EmptyMap]

\* the places where a call of findNode is running
InFindNode == {"hasKey.findNode", "update.findNode", "operator[].findNode",
               "remove.findNode"}

\* the call of findNode(key) made at the place `label`: node = this->root,
\* parent = NULL
enterFindNode(f, t, label) ==
    [f EXCEPT !.at = label, !.node = t.root, !.parent = NULL]

\* the condition of the loop of findNode
findNodeContinues(ns, f) ==
    f.node # NULL /\ ns[f.node].key # f.key

\* one iteration of the loop of findNode
findNodeStep(ns, f) ==
    [f EXCEPT !.parent = f.node,
              !.node = IF f.key < ns[f.node].key THEN ns[f.node].left
                       ELSE ns[f.node].right]

\* what findNode returns when its loop has ended
findNodeResult(f) == IF f.node = NULL THEN f.parent ELSE f.node

\* the insertion branch of update up to ++avlSize:
\* <<the map, the new node>>
linkNewNode(t, node, key, item) ==
    LET newNode == NewAddress(t)
        s1(ns) == [ns EXCEPT
                     ![newNode] = AVLNode(key, item, NULL, NULL, node, 0)]
        s2(ns) == IF node = NULL THEN ns
                  ELSE IF key < ns[node].key
                       THEN [ns EXCEPT ![node].left = newNode]
                       ELSE [ns EXCEPT ![node].right = newNode]
    IN  IF NodeIds \ t.live = {}
        THEN <<[t EXCEPT !.failed = "bad_alloc"], NULL>>
        ELSE <<[t EXCEPT !.nodes = s2(s1(t.nodes)),
                         !.live = t.live \cup {newNode},
                         !.root = IF node = NULL THEN newNode ELSE t.root,
                         !.avlSize = t.avlSize + 1],
               newNode>>

\* the places where a call of fixUp is running: at the head of its loop,
\* and before node = rotateRight(node) and node = rotateLeft(node)
InFixUp == {"fixUp", "fixUp.rotateRight", "fixUp.rotateLeft"}

\* mutant of climb: node is not moved
climb_stay(t, node) ==
    node

\* the end of the loop body of fixUp: node = node->parent
climb(t, node) ==
    t.nodes[node].parent

\* ------------------------------------------------------------- AVLIterator
\* An iterator is a value holding one pointer, `node`; `failed` names the
\* assertion a call on it failed, as for the map.

\* while (this->node->left) this->node = node->left
RECURSIVE leftmost(_, _)
leftmost(ns, node) ==
    IF ns[node].left # NULL THEN leftmost(ns, ns[node].left) ELSE node

\* mutant of the constructor: the iterator stays on the node it is given
AVLIterator_noDescent(ns, rootArg) ==
    [node |-> rootArg, failed |-> "none"]

\* AVLIterator::AVLIterator(AVLNode<K,T> *root); rootArg is its parameter
AVLIterator(ns, rootArg) ==
    [node |-> IF rootArg # NULL THEN leftmost(ns, rootArg) ELSE rootArg,
     failed |-> "none"]

begin(t) == AVLIterator(t.nodes, t.root)

end(t) == AVLIterator(t.nodes, NULL)

\* mutant of the crawl of advance: one step up, whichever child this is
crawlUp_once(ns, old) ==
    ns[old].parent

\* do { old = node; node = node->parent; }
\* while (node != NULL && node->right == old)
RECURSIVE crawlUp(_, _)
crawlUp(ns, old) ==
    LET node == ns[old].parent
    IN  IF node # NULL /\ ns[node].right = old THEN crawlUp(ns, node)
        ELSE node

\* mutant of advance: the position is not asserted
advance_unchecked(ns, iter) ==
    IF iter.node = NULL THEN iter
    ELSE IF ns[iter.node].right # NULL
         THEN [iter EXCEPT !.node = leftmost(ns, ns[iter.node].right)]
         ELSE [iter EXCEPT !.node = crawlUp(ns, iter.node)]

\* AVLIterator::advance on the heap ns
advance(ns, iter) ==
    IF ~(iter.node # NULL)
    THEN [iter EXCEPT !.failed = "advance: node != NULL"]
    ELSE IF ns[iter.node].right # NULL
         THEN [iter EXCEPT !.node = leftmost(ns, ns[iter.node].right)]
         ELSE [iter EXCEPT !.node = crawlUp(ns, iter.node)]

\* prefix ++iter: <<the iterator after the call, the copy returned>>
preIncrement(ns, iter) ==
    <<advance(ns, iter), advance(ns, iter)>>

\* postfix iter++: the set of <<the iterator after the call, the iterator
\* read through the returned reference>>.  The reference names the local
\* tmp, which is destroyed on return: what is read through it is any
\* iterator.  When advance fails its assertion the call never returns.
postIncrement(ns, iter) ==
    IF advance(ns, iter).failed # "none"
    THEN {<<advance(ns, iter), advance(ns, iter)>>}
    ELSE {<<advance(ns, iter), [node |-> p, failed |-> "none"]>> :
              p \in NodeIds \cup {NULL}}

iterKey(ns, iter) == ns[iter.node].key

iterItem(ns, iter) == ns[iter.node].item

\* the loop of printTree from the position iter on: the lines printed
RECURSIVE printFrom(_, _)
printFrom(t, iter) ==
    IF iter.node # end(t).node
    THEN <<<<iterKey(t.nodes, iter), iterItem(t.nodes, iter)>>>>
             \o printFrom(t, preIncrement(t.nodes, iter)[1])
    ELSE <<>>

\* printTree: the <<key, item>> lines printed, in the order printed
printTree(t) == printFrom(t, begin(t))

\* ------------------------------------------------------------- ListNode
\* the content of an address that holds no node
FreedListNode == [item |-> 0, prev |-> NULL, next |-> NULL]

\* ListNode<T>::ListNode(l_item, l_prev, l_next)
ListNode(l_item, l_prev, l_next) ==
    [item |-> l_item, prev |-> l_prev, next |-> l_next]

\* ------------------------------------------------------------- LinkedList
\* the lists and their heap as one value, as the methods see it
CurLists == [nodes |-> listNodes, live |-> listLive, lists |-> lists,
             failed |-> "none"]

\* LinkedList::LinkedList(): the members of an empty list
EmptyList == [first |-> NULL, last |-> NULL, listSize |-> 0]

NoLists == [nodes |-> [n \in ListNodeIds |-> FreedListNode], live |-> {},
            lists |-> [l \in Lists |-> EmptyList], failed |-> "none"]

\* the address new returns: any address not allocated; the model takes the
\* lowest one
NewListAddress(h) == CHOOSE n \in ListNodeIds \ h.live :
                         \A m \in ListNodeIds \ h.live : n <= m

\* listSize--, on an unsigned int: 0 wraps to UINT_MAX.  listSize is kept as
\* the 32-bit pattern read as a signed number, in which UINT_MAX is -1, so
\* that the unsigned test listSize > 0 is listSize # 0
Decremented(listSize) == listSize - 1

\* delete toDelete
deleteListNode(h, toDelete) ==
    [h EXCEPT !.nodes[toDelete] = FreedListNode, !.live = h.live \ {toDelete}]

insertFront(h, l, item) ==
    LET node == NewListAddress(h)
        first == h.lists[l].first
        s1(ns) == [ns EXCEPT ![node] = ListNode(item, NULL, first)]
        s2(ns) == IF first # NULL THEN [ns EXCEPT ![first].prev = node]
                  ELSE ns
    IN  IF h.failed # "none" THEN h
        ELSE IF ListNodeIds \ h.live = {}
        THEN [h EXCEPT !.failed = "bad_alloc"]
        ELSE [h EXCEPT !.nodes = s2(s1(h.nodes)),
                       !.live = h.live \cup {node},
                       !.lists[l].last = IF first # NULL THEN @ ELSE node,
                       !.lists[l].first = node,
                       !.lists[l].listSize = @ + 1]

insertBack(h, l, item) ==
    LET node == NewListAddress(h)
        last == h.lists[l].last
        s1(ns) == [ns EXCEPT ![node] = ListNode(item, last, NULL)]
        s2(ns) == IF last # NULL THEN [ns EXCEPT ![last].next = node]
                  ELSE ns
    IN  IF h.failed # "none" THEN h
        ELSE IF ListNodeIds \ h.live = {}
        THEN [h EXCEPT !.failed = "bad_alloc"]
        ELSE [h EXCEPT !.nodes = s2(s1(h.nodes)),
                       !.live = h.live \cup {node},
                       !.lists[l].first = IF last # NULL THEN @ ELSE node,
                       !.lists[l].last = node,
                       !.lists[l].listSize = @ + 1]

\* mutant of insertBefore: the surrounding links are redirected in the
\* other order
insertBefore_otherOrder(h, l, item, link) ==
    LET node == NewListAddress(h)
        s1(ns) == [ns EXCEPT ![node] = ListNode(item, ns[link].prev, link)]
        s2(ns) == [ns EXCEPT ![ns[link].prev].next = node]
        s3(ns) == [ns EXCEPT ![link].prev = node]
    IN  IF link = h.lists[l].first THEN insertFront(h, l, item)
        ELSE IF ListNodeIds \ h.live = {}
        THEN [h EXCEPT !.failed = "bad_alloc"]
        ELSE [h EXCEPT !.nodes = s2(s3(s1(h.nodes))),
                       !.live = h.live \cup {node},
                       !.lists[l].listSize = @ + 1]

insertBefore(h, l, item, link) ==
    LET node == NewListAddress(h)
        s1(ns) == [ns EXCEPT ![node] = ListNode(item, ns[link].prev, link)]
        s2(ns) == [ns EXCEPT ![ns[link].prev].next = node]
        s3(ns) == [ns EXCEPT ![link].prev = node]
    IN  IF link = h.lists[l].first THEN insertFront(h, l, item)
        ELSE IF ListNodeIds \ h.live = {}
        THEN [h EXCEPT !.failed = "bad_alloc"]
        ELSE [h EXCEPT !.nodes = s3(s2(s1(h.nodes))),
                       !.live = h.live \cup {node},
                       !.lists[l].listSize = @ + 1]

\* mutant of removeFront: last is left alone when the list becomes empty
removeFront_keepLast(h, l) ==
    LET first == h.lists[l].first
        last == h.lists[l].last
        s1(ns) == IF first # last THEN [ns EXCEPT ![ns[first].next].prev = NULL]
                  ELSE ns
    IN  IF ~(first # NULL)
        THEN [h EXCEPT !.failed = "removeFront: first != NULL"]
        ELSE deleteListNode(
                 [h EXCEPT !.nodes = s1(h.nodes),
                           !.lists[l].first = h.nodes[first].next,
                           !.lists[l].listSize = Decremented(@)],
                 first)

removeFront(h, l) ==
    LET first == h.lists[l].first
        last == h.lists[l].last
        s1(ns) == IF first # last THEN [ns EXCEPT ![ns[first].next].prev = NULL]
                  ELSE ns
    IN  IF ~(first # NULL)
        THEN [h EXCEPT !.failed = "removeFront: first != NULL"]
        ELSE deleteListNode(
                 [h EXCEPT !.nodes = s1(h.nodes),
                           !.lists[l].last = IF first # last THEN @ ELSE NULL,
                           !.lists[l].first = h.nodes[first].next,
                           !.lists[l].listSize = Decremented(@)],
                 first)

\* mutant of removeBack: the list is not asserted to hold a node
removeBack_unchecked(h, l) ==
    LET first == h.lists[l].first
        last == h.lists[l].last
        s1(ns) == IF first # last THEN [ns EXCEPT ![ns[last].prev].next = NULL]
                  ELSE ns
    IN  IF ~(first # NULL)
        THEN [h EXCEPT !.lists[l].listSize = Decremented(@)]
        ELSE deleteListNode(
                 [h EXCEPT !.nodes = s1(h.nodes),
                           !.lists[l].first = IF first # last THEN @ ELSE NULL,
                           !.lists[l].last = h.nodes[last].prev,
                           !.lists[l].listSize = Decremented(@)],
                 last)

removeBack(h, l) ==
    LET first == h.lists[l].first
        last == h.lists[l].last
        s1(ns) == IF first # last THEN [ns EXCEPT ![ns[last].prev].next = NULL]
                  ELSE ns
    IN  IF ~(first # NULL)
        THEN [h EXCEPT !.failed = "removeBack: first != NULL"]
        ELSE deleteListNode(
                 [h EXCEPT !.nodes = s1(h.nodes),
                           !.lists[l].first = IF first # last THEN @ ELSE NULL,
                           !.lists[l].last = h.nodes[last].prev,
                           !.lists[l].listSize = Decremented(@)],
                 last)

removeNode(h, l, node) ==
    LET s1(ns) == [ns EXCEPT ![ns[node].prev].next = ns[node].next]
        s2(ns) == [ns EXCEPT ![ns[node].next].prev = ns[node].prev]
    IN  IF node = h.lists[l].first THEN removeFront(h, l)
        ELSE IF node = h.lists[l].last THEN removeBack(h, l)
        ELSE deleteListNode(
                 [h EXCEPT !.nodes = s2(s1(h.nodes)),
                           !.lists[l].listSize = Decremented(@)],
                 node)

\* while (listSize > 0) removeBack()
RECURSIVE clear(_, _)
clear(h, l) ==
    IF h.failed = "none" /\ h.lists[l].listSize # 0
    THEN clear(removeBack(h, l), l)
    ELSE h

\* the loop of operator=: insertBack(node->item) from `node` of rhs on
RECURSIVE copyFrom(_, _, _)
copyFrom(h, l, node) ==
    IF h.failed = "none" /\ node # NULL
    THEN copyFrom(insertBack(h, l, h.nodes[node].item), l, h.nodes[node].next)
    ELSE h

\* mutant of operator=: the members are copied, not the nodes
assign_shallow(h, l, rhs) ==
    [clear(h, l) EXCEPT !.lists[l] = clear(h, l).lists[rhs]]

\* LinkedList::operator=(rhs), called on the list l
assign(h, l, rhs) ==
    copyFrom(clear(h, l), l, clear(h, l).lists[rhs].first)

\* LinkedList::LinkedList(const LinkedList& rhs), constructing the list l:
\* first = last = NULL; listSize = 0; *this = rhs
copyConstruct(h, l, rhs) ==
    assign([h EXCEPT !.lists[l] = EmptyList], l, rhs)

listSizeOf(h, l) == h.lists[l].listSize

getFirst(h, l) == h.lists[l].first

getLast(h, l) == h.lists[l].last

\* mutant of the loop of find: the comparison is inverted
RECURSIVE findFrom_inverted(_, _, _)
findFrom_inverted(ns, node, item) ==
    IF node # NULL /\ ns[node].item = item
    THEN findFrom_inverted(ns, ns[node].next, item)
    ELSE node

\* the loop of find
RECURSIVE findFrom(_, _, _)
findFrom(ns, node, item) ==
    IF node # NULL /\ ns[node].item # item
    THEN findFrom(ns, ns[node].next, item)
    ELSE node

find(h, l, item) == findFrom(h.nodes, h.lists[l].first, item)

\* ------------------------------------------------------- StudentRecord
\* a record of the table: name and grade are payload, id is the key
StudentRecord(id, grade) == [id |-> id, grade |-> grade]

Ids == 0..MaxId

\* the records the program inserts, removes and looks up: one of every
\* id with grade 0, and the one of id 0 with every other grade as well
Records ==
    {StudentRecord(id, 0) : id \in Ids}
        \cup {StudentRecord(0, grade) : grade \in 1..MaxGrade}

\* unsigned int StudentRecord::hash() const
hash(item) == item.id

\* bool StudentRecord::operator!=(const StudentRecord& rhs) const
notEqual(item, rhs) == item.id # rhs.id

\* ------------------------------------------------- buckets of the table
\* LinkedList<T>::insertFront on a bucket
bucketInsertFront(list, item) == <<item>> \o list

\* the loop of LinkedList<T>::find on a bucket, from the node at `node`
RECURSIVE bucketFindFrom(_, _, _)
bucketFindFrom(list, node, item) ==
    IF node <= Len(list) /\ notEqual(list[node], item)
    THEN bucketFindFrom(list, node + 1, item)
    ELSE IF node <= Len(list) THEN node ELSE NULL

\* LinkedList<T>::find on a bucket: the first node whose item does not
\* differ from item, NULL if there is none
bucketFind(list, item) == bucketFindFrom(list, 1, item)

\* LinkedList<T>::removeNode on a bucket
bucketRemoveNode(list, link) ==
    [i \in 1..(Len(list) - 1) |-> IF i < link THEN list[i] ELSE list[i + 1]]

\* ------------------------------------------------------------- HashTable
\* the number of buckets of a new table
no_of_buckets == 10

\* new LinkedList<T>[n]: n empty lists
NewTable(n) == [i \in 0..(n - 1) |-> <<>>]

CurTable == [table |-> table, numItems |-> numItems, tableSize |-> tableSize,
             failed |-> "none"]

\* HashTable<T>::HashTable()
EmptyTable == [table |-> NewTable(no_of_buckets), numItems |-> 0,
               tableSize |-> no_of_buckets, failed |-> "none"]

\* HashTable<T>::getBucket
getBucket(h, item) == hash(item) % h.tableSize

\* HashTable<T>::contains
contains(h, item) == bucketFind(h.table[getBucket(h, item)], item) # NULL

\* the inner loop of resize: the nodes of one old bucket from `start` on,
\* each item put in front of its bucket of the new array
RECURSIVE rehashList(_, _, _, _)
rehashList(newTable, list, start, newTableSize) ==
    IF start <= Len(list)
    THEN LET bucket == hash(list[start]) % newTableSize
         IN  rehashList([newTable EXCEPT
                            ![bucket] = bucketInsertFront(@, list[start])],
                        list, start + 1, newTableSize)
    ELSE newTable

\* the outer loop of resize, over the old buckets i, i+1, ..., tableSize-1
RECURSIVE rehashFrom(_, _, _, _)
rehashFrom(newTable, h, i, newTableSize) ==
    IF i < h.tableSize
    THEN rehashFrom(rehashList(newTable, h.table[i], 1, newTableSize),
                    h, i + 1, newTableSize)
    ELSE newTable

\* the number of buckets resize(newSize) chooses
newTableSizeFor(h, newSize) ==
    IF h.tableSize < newSize THEN Max(h.tableSize * 2, 10)
    ELSE IF h.tableSize > newSize THEN Max(h.tableSize \div 2, 10)
    ELSE 1

\* resize that keeps every item at the bucket index it had
HashTable_resize_oldBuckets(h, newSize) ==
    LET newTableSize == newTableSizeFor(h, newSize)
    IN  [h EXCEPT !.table = rehashFrom(NewTable(newTableSize), h, 0,
                                       h.tableSize),
                  !.tableSize = newTableSize]

\* HashTable<T>::resize
HashTable_resize(h, newSize) ==
    LET newTableSize == newTableSizeFor(h, newSize)
    IN  [h EXCEPT !.table = rehashFrom(NewTable(newTableSize), h, 0,
                                       newTableSize),
                  !.tableSize = newTableSize]

\* insert without the test of contains(item)
HashTable_insert_unchecked(h, item) ==
    LET h1 == IF h.numItems = h.tableSize
              THEN HashTable_resize(h, h.tableSize + 1)
              ELSE h
        bucket == getBucket(h1, item)
    IN  [after |-> [h1 EXCEPT !.table[bucket] = bucketInsertFront(@, item),
                              !.numItems = @ + 1],
         returned |-> TRUE]

\* HashTable<T>::insert: the table after the call and the value returned
HashTable_insert(h, item) ==
    IF contains(h, item)
    THEN [after |-> h, returned |-> FALSE]
    ELSE LET h1 == IF h.numItems = h.tableSize
                   THEN HashTable_resize(h, h.tableSize + 1)
                   ELSE h
             bucket == getBucket(h1, item)
         IN  [after |-> [h1 EXCEPT
                            !.table[bucket] = bucketInsertFront(@, item),
                            !.numItems = @ + 1],
              returned |-> TRUE]

\* remove without the assertion: numItems is decremented either way
HashTable_remove_unchecked(h, item) ==
    LET h1 == IF h.numItems < (h.tableSize \div 4) /\ h.tableSize > 10
              THEN HashTable_resize(h, h.tableSize - 1)
              ELSE h
        bucket == getBucket(h1, item)
        link == bucketFind(h1.table[bucket], item)
    IN  IF link = NULL
        THEN [h1 EXCEPT !.numItems = @ - 1]
        ELSE [h1 EXCEPT !.table[bucket] = bucketRemoveNode(@, link),
                        !.numItems = @ - 1]

\* HashTable<T>::remove
HashTable_remove(h, item) ==
    LET h1 == IF h.numItems < (h.tableSize \div 4) /\ h.tableSize > 10
              THEN HashTable_resize(h, h.tableSize - 1)
              ELSE h
        bucket == getBucket(h1, item)
        link == bucketFind(h1.table[bucket], item)
    IN  IF link = NULL
        THEN [h1 EXCEPT !.failed = "remove: link != NULL"]
        ELSE [h1 EXCEPT !.table[bucket] = bucketRemoveNode(@, link),
                        !.numItems = @ - 1]

\* HashTable<T>::size
HashTable_size(h) == h.numItems

\* the loops of getItemsArray: the items of the buckets i, i+1, ..., each
\* bucket from its first node to its last, pushed to the back of `pushed`
RECURSIVE itemsFrom(_, _, _)
itemsFrom(pushed, h, i) ==
    IF i < h.tableSize
    THEN itemsFrom(pushed \o h.table[i], h, i + 1)
    ELSE pushed

\* HashTable<T>::getItemsArray
getItemsArray(h) == itemsFrom(<<>>, h, 0)

\* ---------------------------------------------------------- DynamicArray
\* the value of an int that was never written: a slot of new T[n], and
\* what a read outside the allocation returns
Indeterminate == -1

Min(a, b) == IF a <= b THEN a ELSE b

\* T* array = NULL: an array with no slot
NullArray == <<>>

\* new T[n]: the slots 0..n-1, none written
NewArray(n) == [i \in 0..(n - 1) |-> Indeterminate]

\* array[i], for any int i
slot(arr, i) == IF i \in DOMAIN arr THEN arr[i] ELSE Indeterminate

CurArray == [array |-> array, numItems |-> arrayNumItems,
             arraySize |-> arraySize, failed |-> "none"]

\* DynamicArray<T>::resize
DynamicArray_resize(h, newSize) ==
    LET newArraySize == Max(newSize * 2, 10)
        copied == IF h.array # NullArray THEN Min(h.numItems, newSize) ELSE 0
    IN  [h EXCEPT !.array = [i \in 0..(newArraySize - 1) |->
                                IF i < copied THEN h.array[i]
                                ELSE Indeterminate],
                  !.numItems = newSize,
                  !.arraySize = newArraySize]

\* an object whose constructor has not run yet: numItems holds `garbage`
Unconstructed(garbage) ==
    [array |-> NullArray, numItems |-> garbage, arraySize |-> garbage,
     failed |-> "none"]

\* DynamicArray<T>::DynamicArray(unsigned int size)
DynamicArray(sizeArg) == DynamicArray_resize(Unconstructed(0), sizeArg)

\* the loop of the copy constructor from index i on; a read past the
\* allocation of the source stops the program
RECURSIVE copyFromIndex(_, _, _)
copyFromIndex(h, copy, i) ==
    IF i < h.numItems
    THEN IF i < copy.arraySize
         THEN copyFromIndex([h EXCEPT !.array[i] = copy.array[i]], copy, i + 1)
         ELSE [h EXCEPT !.failed = "copy: copy.array[i] out of bounds"]
    ELSE h

\* DynamicArray<T>::DynamicArray(const DynamicArray& copy), for an object
\* whose numItems holds `garbage` when the constructor starts
DynamicArray_copy(copy, garbage) ==
    LET h0 == Unconstructed(garbage)
        h1 == DynamicArray_resize(h0, h0.numItems)
    IN  copyFromIndex(h1, copy, 0)

\* DynamicArray<T>::size
DynamicArray_size(h) == h.numItems

\* the first statement of pushBack and insert: make room when full
withRoom(h) ==
    IF h.numItems = h.arraySize
    THEN [DynamicArray_resize(h, h.numItems + 1) EXCEPT !.numItems = @ - 1]
    ELSE h

\* pushBack that keeps the numItems resize has set
pushBack_noDecrement(h, item) ==
    LET h1 == IF h.numItems = h.arraySize
              THEN DynamicArray_resize(h, h.numItems + 1)
              ELSE h
    IN  [h1 EXCEPT !.array[h1.numItems] = item, !.numItems = @ + 1]

\* DynamicArray<T>::pushBack
pushBack(h, item) ==
    LET h1 == withRoom(h)
    IN  [h1 EXCEPT !.array[h1.numItems] = item, !.numItems = @ + 1]

\* DynamicArray<T>::operator[]: the slot the reference returned names, and
\* the array after an assignment through it
subscript(h, idx) ==
    IF idx < h.numItems
    THEN h
    ELSE [h EXCEPT !.failed = "operator[]: index < numItems"]

assignAt(h, idx, item) ==
    IF idx < h.numItems
    THEN [h EXCEPT !.array[idx] = item]
    ELSE [h EXCEPT !.failed = "operator[]: index < numItems"]

\* the loop of insert, for (int i = ...; i >= index; i--), from i on.  i is
\* converted to unsigned for the comparison: a negative i compares as a
\* number above every index, so with index 0 the loop has no exit; it
\* reads array[-1] and then writes below the allocation.
RECURSIVE shiftRight(_, _, _)
shiftRight(h, i, idx) ==
    IF i < 0
    THEN [h EXCEPT !.failed = "insert: array[i] out of bounds"]
    ELSE IF i >= idx
         THEN shiftRight([h EXCEPT !.array[i] = slot(h.array, i - 1)],
                         i - 1, idx)
         ELSE h

\* DynamicArray<T>::insert
DynamicArray_insert(h, idx, item) ==
    IF ~(idx <= h.numItems)
    THEN [h EXCEPT !.failed = "insert: index <= numItems"]
    ELSE LET h1 == withRoom(h)
             h2 == shiftRight(h1, h1.numItems, idx)
         IN  IF h2.failed # "none"
             THEN h2
             ELSE [h2 EXCEPT !.array[idx] = item, !.numItems = @ + 1]

\* the loop of erase, for (int i = index; i < numItems - 1; i++), from i on
RECURSIVE shiftLeft(_, _)
shiftLeft(h, i) ==
    IF i < h.numItems - 1
    THEN shiftLeft([h EXCEPT !.array[i] = h.array[i + 1]], i + 1)
    ELSE h

\* DynamicArray<T>::erase.  assert(0 <= index < numItems) compares the
\* bool (0 <= index), which is true for an unsigned index, with numItems.
erase(h, idx) ==
    IF ~(1 < h.numItems)
    THEN [h EXCEPT !.failed = "erase: 0 <= index < numItems"]
    ELSE LET h1 == shiftLeft(h, idx)
             h2 == [h1 EXCEPT !.numItems = @ - 1]
         IN  IF h2.numItems < h2.arraySize /\ h2.arraySize > 10
             THEN DynamicArray_resize(h2, h2.numItems)
             ELSE h2

\* DynamicArray<T>::popBack: the array after the call (the item returned is
\* array[numItems - 1] before it)
popBack(h) ==
    IF ~(h.numItems > 0)
    THEN [h EXCEPT !.failed = "popBack: numItems > 0"]
    ELSE erase(h, h.numItems - 1)

\* the loop of DynamicArray<T>::find from index i on
RECURSIVE arrayFindFrom(_, _, _)
arrayFindFrom(h, item, i) ==
    IF i < h.numItems
    THEN IF item = h.array[i] THEN i ELSE arrayFindFrom(h, item, i + 1)
    ELSE -1

\* DynamicArray<T>::find
DynamicArray_find(h, item) == arrayFindFrom(h, item, 0)

\* ------------------------------------------------------- addresses
\* The program uses the address of a node only to follow it and to compare
\* it for equality (never its numeric value), so two heaps that differ by a
\* renaming of addresses are the same program state.  A state is stored
\* under one representative: the allocated nodes are moved to the addresses
\* 1..n in the order of their keys (ties by old address), and the free
\* addresses follow.  Relocate is the renaming, Relocated the renamed heap.
Before(ns, m, n) ==
    \/ ns[m].key < ns[n].key
    \/ ns[m].key = ns[n].key /\ m < n

Relocate(t, p) ==
    IF p = NULL THEN NULL
    ELSE IF p \in t.live
         THEN 1 + Cardinality({m \in t.live : Before(t.nodes, m, p)})
         ELSE 1 + Cardinality(t.live)
                + Cardinality({m \in NodeIds \ t.live : m < p})

RelocatedBy(t, to) ==
    [t EXCEPT
       !.nodes = [i \in NodeIds |->
                    LET n == CHOOSE m \in NodeIds : to[m] = i
                    IN  [t.nodes[n] EXCEPT !.left = to[@],
                                           !.right = to[@],
                                           !.parent = to[@]]],
       !.live = {to[n] : n \in t.live},
       !.root = to[t.root]]

Pointers == NodeIds \cup {NULL}

Relocated(t) ==
    RelocatedBy(t, CHOOSE to \in {[p \in Pointers |-> Relocate(t, p)]} :
                       to \in [Pointers -> Pointers])

\* The list heap is stored under one representative as well: the nodes
\* of the lists, in the order of ListNames and then from first along next,
\* are moved to the lowest addresses; allocated nodes that no list reaches
\* and the free addresses follow.

\* the nodes met from `node` along next, without those in `seen`
RECURSIVE ChainFrom(_, _, _)
ChainFrom(ns, node, seen) ==
    IF node = NULL \/ node \in seen THEN <<>>
    ELSE <<node>> \o ChainFrom(ns, ns[node].next, seen \cup {node})

\* the elements of the sequence q
Range(q) == {q[i] : i \in 1..Len(q)}

\* the nodes of the lists ListNames[i..], without those in `seen`
RECURSIVE ChainsFrom(_, _, _)
ChainsFrom(h, i, seen) ==
    IF i > Len(ListNames) THEN <<>>
    ELSE ChainFrom(h.nodes, h.lists[ListNames[i]].first, seen)
         \o ChainsFrom(h, i + 1,
                       seen \cup Range(ChainFrom(h.nodes,
                                                 h.lists[ListNames[i]].first,
                                                 seen)))

\* the addresses of the set S in ascending order
RECURSIVE Ascending(_)
Ascending(S) ==
    IF S = {} THEN <<>>
    ELSE LET m == CHOOSE x \in S : \A y \in S : x <= y
         IN  <<m>> \o Ascending(S \ {m})

\* all addresses in the order of the representative
ListOrder(h) ==
    ChainsFrom(h, 1, {})
      \o Ascending(h.live \ Range(ChainsFrom(h, 1, {})))
      \o Ascending(ListNodeIds \ (h.live \cup Range(ChainsFrom(h, 1, {}))))

ListPointers == ListNodeIds \cup {NULL}

ListRelocatedBy(h, to) ==
    [h EXCEPT
       !.nodes = [i \in ListNodeIds |->
                    LET n == CHOOSE m \in ListNodeIds : to[m] = i
                    IN  [h.nodes[n] EXCEPT !.prev = to[@], !.next = to[@]]],
       !.live = {to[n] : n \in h.live},
       !.lists = [l \in Lists |->
                    [h.lists[l] EXCEPT !.first = to[@], !.last = to[@]]]]

ListRelocated(h) ==
    ListRelocatedBy(h,
        CHOOSE to \in {[p \in ListPointers |->
                          IF p = NULL THEN NULL
                          ELSE CHOOSE i \in 1..Len(ListOrder(h)) :
                                   ListOrder(h)[i] = p]} :
            to \in [ListPointers -> ListPointers])

\* ------------------------------------------------------------- actions
\* the map and its heap after a call
Becomes(t) ==
    \E s \in {Relocated(t)} :
        /\ nodes' = s.nodes
        /\ live' = s.live
        /\ root' = s.root
        /\ avlSize' = s.avlSize
        /\ aborted' = s.failed
        /\ UNCHANGED <<frame, listVars, hashVars, arrayVars>>

Init ==
    /\ nodes = EmptyMap.nodes
    /\ live = EmptyMap.live
    /\ root = EmptyMap.root
    /\ avlSize = EmptyMap.avlSize
    /\ aborted = EmptyMap.failed
    /\ frame = NoCall
    /\ listNodes = NoLists.nodes
    /\ listLive = NoLists.live
    /\ lists = NoLists.lists
    /\ listAborted = NoLists.failed
    /\ table = EmptyTable.table
    /\ numItems = EmptyTable.numItems
    /\ tableSize = EmptyTable.tableSize
    /\ hashAborted = EmptyTable.failed
    /\ array = DynamicArray(0).array
    /\ arrayNumItems = DynamicArray(0).numItems
    /\ arraySize = DynamicArray(0).arraySize
    /\ arrayAborted = DynamicArray(0).failed

Update(k, v) ==
    /\ aborted = "none"
    /\ \E t \in {update(Cur, k, v)} : Becomes(t)

Remove(k) ==
    /\ aborted = "none"
    /\ \E t \in {remove(Cur, k)} : Becomes(t)

HasKey(k) ==
    /\ aborted = "none"
    /\ hasKey(Cur, k) \in BOOLEAN
    /\ UNCHANGED vars

Index(k) ==
    /\ aborted = "none"
    /\ \E r \in {index(Cur, k)} : Becomes(r[1])

At(k) ==
    /\ aborted = "none"
    /\ \E r \in {at(Cur, k)} : Becomes(r[1])

Size ==
    /\ aborted = "none"
    /\ size(Cur) \in Nat
    /\ UNCHANGED vars

PrintTree ==
    /\ aborted = "none"
    /\ printTree(Cur) \in Seq(Keys \X Items)
    /\ UNCHANGED vars

Next ==
    \/ \E k \in Keys, v \in Items : Update(k, v)
    \/ \E k \in Keys : Remove(k)
    \/ \E k \in Keys : HasKey(k)
    \/ \E k \in Keys : Index(k)
    \/ \E k \in Keys : At(k)
    \/ Size
    \/ PrintTree

Spec == Init /\ [][Next]_vars

\* the same program, for the properties of look-up and of the iterator
MapSpec == Init /\ [][Next]_vars

\* the same program, for the properties of the rotations and of the loops
BalanceSpec == Init /\ [][Next]_vars

\* ------------------------------------------ the calls, one loop iteration
\* ------------------------------------------ at a time
\* the map and its heap after a step inside a call
HeapBecomes(t) ==
    /\ nodes' = t.nodes
    /\ live' = t.live
    /\ root' = t.root
    /\ avlSize' = t.avlSize
    /\ aborted' = t.failed
    /\ UNCHANGED <<listVars, hashVars, arrayVars>>

HeapUnchanged == UNCHANGED <<avlVars, listVars, hashVars, arrayVars>>

\* the call returns to main with the map t
Returns(t) ==
    \E u \in {t} :
    \E to \in {[p \in Pointers |-> Relocate(u, p)]} :
    \E s \in {RelocatedBy(u, to)} :
        /\ HeapBecomes(s)
        /\ frame' = NoCall

\* the call goes on at f with the map t, unless an assertion has failed
Continues(t, f) ==
    IF t.failed # "none" THEN Returns(t)
    ELSE HeapBecomes(t) /\ frame' = f

\* update returns: to operator[], which calls findNode(key), or to main
UpdateReturns(t) ==
    IF frame.op = "operator[]"
    THEN Continues(t, enterFindNode(frame, t, "operator[].findNode"))
    ELSE Returns(t)

\* main calls update(k, v): node = findNode(key)
CallUpdate(k, v) ==
    /\ aborted = "none"
    /\ frame.at = "main"
    /\ frame' = enterFindNode([NoCall EXCEPT !.op = "update", !.key = k,
                                             !.item = v, !.from = Cur],
                              Cur, "update.findNode")
    /\ HeapUnchanged

\* main calls operator[](k): hasKey(key) calls findNode(key)
CallIndex(k) ==
    /\ aborted = "none"
    /\ frame.at = "main"
    /\ frame' = enterFindNode([NoCall EXCEPT !.op = "operator[]", !.key = k,
                                             !.from = Cur],
                              Cur, "hasKey.findNode")
    /\ HeapUnchanged

\* main calls remove(k): node = findNode(key)
CallRemove(k) ==
    /\ aborted = "none"
    /\ frame.at = "main"
    /\ frame' = enterFindNode([NoCall EXCEPT !.op = "remove", !.key = k,
                                             !.from = Cur],
                              Cur, "remove.findNode")
    /\ HeapUnchanged

\* one iteration of the loop of findNode
FindNodeStep ==
    /\ frame.at \in InFindNode
    /\ findNodeContinues(nodes, frame)
    /\ frame' = findNodeStep(nodes, frame)
    /\ HeapUnchanged

\* findNode returns to hasKey, and hasKey to operator[]: update(key, T())
\* when the key is absent, then findNode(key)
HasKeyReturns ==
    /\ frame.at = "hasKey.findNode"
    /\ ~findNodeContinues(nodes, frame)
    /\ \E node \in {findNodeResult(frame)} :
           IF node # NULL /\ ~(nodes[node].key # frame.key)
           THEN frame' = enterFindNode(frame, Cur, "operator[].findNode")
           ELSE frame' = enterFindNode([frame EXCEPT !.item = 0], Cur,
                                       "update.findNode")
    /\ HeapUnchanged

\* findNode returns to update: the new leaf is linked and fixUp(newNode)
\* is called, or the item is stored and update returns
UpdateFound ==
    /\ frame.at = "update.findNode"
    /\ ~findNodeContinues(nodes, frame)
    /\ \E node \in {findNodeResult(frame)} :
           IF node = NULL \/ nodes[node].key # frame.key
           THEN \E r \in {linkNewNode(Cur, node, frame.key, frame.item)} :
                    Continues(r[1], [frame EXCEPT !.at = "fixUp",
                                                  !.node = r[2],
                                                  !.parent = NULL])
           ELSE UpdateReturns([Cur EXCEPT !.nodes[node].item = frame.item])

\* findNode returns to operator[], which returns the item of the node
IndexReturns ==
    /\ frame.at = "operator[].findNode"
    /\ ~findNodeContinues(nodes, frame)
    /\ Returns(Cur)

\* findNode returns to remove: the assertion, then tmp = node->left,
\* pluck = node
RemoveFound ==
    /\ frame.at = "remove.findNode"
    /\ ~findNodeContinues(nodes, frame)
    /\ \E node \in {findNodeResult(frame)} :
           IF ~removeAssertion(Cur, node, frame.key)
           THEN Returns([Cur EXCEPT !.failed = "remove: key is in the tree"])
           ELSE /\ frame' = [frame EXCEPT !.at = "remove.while",
                                          !.node = node, !.parent = NULL,
                                          !.tmp = nodes[node].left,
                                          !.pluck = node]
                /\ HeapUnchanged

\* one iteration of the loop of remove
RemoveWhileStep ==
    /\ frame.at = "remove.while"
    /\ frame.tmp # NULL
    /\ frame' = [frame EXCEPT !.pluck = frame.tmp,
                              !.tmp = nodes[frame.tmp].right]
    /\ HeapUnchanged

\* the loop of remove has ended: the contents are copied, pluck is plucked
\* and fixUp(pluckParent) is called
RemovePlucks ==
    /\ frame.at = "remove.while"
    /\ frame.tmp = NULL
    /\ \E t \in {[Cur EXCEPT !.nodes = copyContents(nodes, frame.node,
                                                     frame.pluck)]} :
           Continues(pluckNode(t, frame.pluck),
                     [frame EXCEPT !.at = "fixUp",
                                   !.node = t.nodes[frame.pluck].parent,
                                   !.pluck = NULL])

\* the loop body of fixUp at `node` up to the rotations: the height is
\* recalculated and the balance asserted; on lh == rh+2 the left child is
\* rotated left if llh < lrh and node = rotateRight(node) comes next, on
\* lh+2 == rh the mirror image; otherwise node = node->parent
FixUpStep ==
    /\ frame.at = "fixUp"
    /\ frame.node # NULL
    /\ \E t \in {[Cur EXCEPT !.nodes = recalcHeight(nodes, frame.node)]} :
       \E lh \in {childHeights(t.nodes, frame.node)[1]} :
       \E rh \in {childHeights(t.nodes, frame.node)[2]} :
           IF ~(Abs(lh - rh) <= 2)
           THEN Returns([t EXCEPT !.failed = "fixUp: abs(lh-rh) <= 2"])
           ELSE IF lh = rh + 2
           THEN \E lchild \in {t.nodes[frame.node].left} :
                \E llh \in {childHeights(t.nodes, lchild)[1]} :
                \E lrh \in {childHeights(t.nodes, lchild)[2]} :
                \E u \in {IF llh < lrh THEN rotateLeft(t, lchild) ELSE t} :
                    Continues(u, [frame EXCEPT !.at = "fixUp.rotateRight"])
           ELSE IF lh + 2 = rh
           THEN \E rchild \in {t.nodes[frame.node].right} :
                \E rlh \in {childHeights(t.nodes, rchild)[1]} :
                \E rrh \in {childHeights(t.nodes, rchild)[2]} :
                \E u \in {IF rlh > rrh THEN rotateRight(t, rchild) ELSE t} :
                    Continues(u, [frame EXCEPT !.at = "fixUp.rotateLeft"])
           ELSE Continues(t, [frame EXCEPT !.node = climb(t, frame.node)])

\* node = rotateRight(node); node = node->parent
FixUpRotateRight ==
    /\ frame.at = "fixUp.rotateRight"
    /\ \E r \in {thenRotateRight(Cur, frame.node)} :
           Continues(r[1], [frame EXCEPT !.at = "fixUp",
                                         !.node = climb(r[1], r[2])])

\* node = rotateLeft(node); node = node->parent
FixUpRotateLeft ==
    /\ frame.at = "fixUp.rotateLeft"
    /\ \E r \in {thenRotateLeft(Cur, frame.node)} :
           Continues(r[1], [frame EXCEPT !.at = "fixUp",
                                         !.node = climb(r[1], r[2])])

\* the loop of fixUp has ended: fixUp returns to remove or to update,
\* which return
FixUpReturns ==
    /\ frame.at = "fixUp"
    /\ frame.node = NULL
    /\ IF frame.op = "remove" THEN Returns(Cur) ELSE UpdateReturns(Cur)

\* a step of the call that is running
Runs ==
    \/ FindNodeStep
    \/ HasKeyReturns
    \/ UpdateFound
    \/ IndexReturns
    \/ RemoveFound
    \/ RemoveWhileStep
    \/ RemovePlucks
    \/ FixUpStep
    \/ FixUpRotateRight
    \/ FixUpRotateLeft
    \/ FixUpReturns

\* no loop reads an item, so the calls of update store one item, T()
CallNext ==
    \/ \E k \in Keys : CallUpdate(k, 0)
    \/ \E k \in Keys : CallIndex(k)
    \/ \E k \in Keys : CallRemove(k)
    \/ Runs

\* the program is single-threaded and a call runs without suspension: a
\* call that can take a step takes it; main need not make another call
CallSpec == Init /\ [][CallNext]_vars /\ WF_vars(Runs)

\* ------------------------------------------------------- list actions
\* the lists and their heap after a call; a call that would need more
\* than MaxListNodes nodes is not taken
ListsBecome(h) ==
    /\ h.failed # "bad_alloc"
    /\ \E s \in {ListRelocated(h)} :
           /\ listNodes' = s.nodes
           /\ listLive' = s.live
           /\ lists' = s.lists
           /\ listAborted' = s.failed
    /\ UNCHANGED <<avlVars, frame, hashVars, arrayVars>>

\* the nodes of list l, from first along next
NodesOf(h, l) == Range(ChainFrom(h.nodes, h.lists[l].first, {}))

InsertFront(l, x) ==
    /\ listAborted = "none"
    /\ \E h \in {insertFront(CurLists, l, x)} : ListsBecome(h)

InsertBack(l, x) ==
    /\ listAborted = "none"
    /\ \E h \in {insertBack(CurLists, l, x)} : ListsBecome(h)

\* insertBefore assumes the node is in this list
InsertBefore(l, x, link) ==
    /\ listAborted = "none"
    /\ link \in NodesOf(CurLists, l)
    /\ \E h \in {insertBefore(CurLists, l, x, link)} : ListsBecome(h)

RemoveFront(l) ==
    /\ listAborted = "none"
    /\ \E h \in {removeFront(CurLists, l)} : ListsBecome(h)

RemoveBack(l) ==
    /\ listAborted = "none"
    /\ \E h \in {removeBack(CurLists, l)} : ListsBecome(h)

\* removeNode assumes the node is in this list
RemoveNode(l, node) ==
    /\ listAborted = "none"
    /\ node \in NodesOf(CurLists, l)
    /\ \E h \in {removeNode(CurLists, l, node)} : ListsBecome(h)

Clear(l) ==
    /\ listAborted = "none"
    /\ \E h \in {clear(CurLists, l)} : ListsBecome(h)

Assign(l, rhs) ==
    /\ listAborted = "none"
    /\ \E h \in {assign(CurLists, l, rhs)} : ListsBecome(h)

\* the copy constructor builds a new object: the list l is constructed
\* anew where no list holds nodes
CopyConstruct(l, rhs) ==
    /\ listAborted = "none"
    /\ l # rhs
    /\ lists[l] = EmptyList
    /\ \E h \in {copyConstruct(CurLists, l, rhs)} : ListsBecome(h)

Find(l, x) ==
    /\ listAborted = "none"
    /\ find(CurLists, l, x) \in ListPointers
    /\ UNCHANGED vars

ListSize(l) ==
    /\ listAborted = "none"
    /\ listSizeOf(CurLists, l) \in Nat
    /\ UNCHANGED vars

GetFirst(l) ==
    /\ listAborted = "none"
    /\ getFirst(CurLists, l) \in ListPointers
    /\ UNCHANGED vars

GetLast(l) ==
    /\ listAborted = "none"
    /\ getLast(CurLists, l) \in ListPointers
    /\ UNCHANGED vars

ListNext ==
    \/ \E l \in Lists, x \in Items : InsertFront(l, x)
    \/ \E l \in Lists, x \in Items : InsertBack(l, x)
    \/ \E l \in Lists, x \in Items, link \in ListNodeIds : InsertBefore(l, x, link)
    \/ \E l \in Lists : RemoveFront(l)
    \/ \E l \in Lists : RemoveBack(l)
    \/ \E l \in Lists, node \in ListNodeIds : RemoveNode(l, node)
    \/ \E l \in Lists : Clear(l)
    \/ \E l \in Lists, rhs \in Lists : Assign(l, rhs)
    \/ \E l \in Lists, rhs \in Lists : CopyConstruct(l, rhs)
    \/ \E l \in Lists, x \in Items : Find(l, x)
    \/ \E l \in Lists : ListSize(l)
    \/ \E l \in Lists : GetFirst(l)
    \/ \E l \in Lists : GetLast(l)

ListSpec == Init /\ [][ListNext]_vars

\* ------------------------------------------------- hash table actions
TableBecomes(h) ==
    /\ table' = h.table
    /\ numItems' = h.numItems
    /\ tableSize' = h.tableSize
    /\ hashAborted' = h.failed
    /\ UNCHANGED <<avlVars, frame, listVars, arrayVars>>

Insert(item) ==
    /\ hashAborted = "none"
    /\ \E r \in {HashTable_insert(CurTable, item)} : TableBecomes(r.after)

HashRemove(item) ==
    /\ hashAborted = "none"
    /\ \E h \in {HashTable_remove(CurTable, item)} : TableBecomes(h)

Contains(item) ==
    /\ hashAborted = "none"
    /\ contains(CurTable, item) \in BOOLEAN
    /\ UNCHANGED vars

HashSize ==
    /\ hashAborted = "none"
    /\ HashTable_size(CurTable) \in Nat
    /\ UNCHANGED vars

GetItemsArray ==
    /\ hashAborted = "none"
    /\ getItemsArray(CurTable) \in Seq(Records)
    /\ UNCHANGED vars

HashNext ==
    \/ \E item \in Records : Insert(item)
    \/ \E item \in Records : HashRemove(item)
    \/ \E item \in Records : Contains(item)
    \/ HashSize
    \/ GetItemsArray

HashSpec == Init /\ [][HashNext]_vars

\* ------------------------------------------------------ array actions
\* the slots in use that were never written
Unwritten(h) == {i \in 0..(h.numItems - 1) : h.array[i] = Indeterminate}

\* the array h with the items of `fill` in the unwritten slots it names
\* and 0 in the others; the slots past numItems are not in use, and are
\* kept as never written
Filled(h, fill) ==
    [h EXCEPT !.array =
        [i \in 0..(h.arraySize - 1) |->
            IF i >= h.numItems THEN Indeterminate
            ELSE IF i \in DOMAIN fill THEN fill[i]
            ELSE IF h.array[i] = Indeterminate THEN 0
            ELSE h.array[i]]]

\* the items other than 0 in use
NonZero(h) == {i \in 0..(h.numItems - 1) : h.array[i] # 0}

\* the array after a call: every unwritten slot in use holds some int; a
\* call that would leave more than MaxNumItems items, or more than
\* MaxNonZero items other than 0, is not taken
ArrayBecomes(h) ==
    /\ h.numItems <= MaxNumItems
    /\ \E marked \in SUBSET Unwritten(h) :
       \E fill \in [marked -> 1..MaxItem] :
       \E s \in {Filled(h, fill)} :
           /\ Cardinality(NonZero(s)) <= MaxNonZero
           /\ array' = s.array
           /\ arrayNumItems' = s.numItems
           /\ arraySize' = s.arraySize
           /\ arrayAborted' = s.failed
    /\ UNCHANGED <<avlVars, frame, listVars, hashVars>>

Resize(newSize) ==
    /\ arrayAborted = "none"
    /\ \E h \in {DynamicArray_resize(CurArray, newSize)} : ArrayBecomes(h)

PushBack(item) ==
    /\ arrayAborted = "none"
    /\ \E h \in {pushBack(CurArray, item)} : ArrayBecomes(h)

ArrayInsert(idx, item) ==
    /\ arrayAborted = "none"
    /\ \E h \in {DynamicArray_insert(CurArray, idx, item)} : ArrayBecomes(h)

Erase(idx) ==
    /\ arrayAborted = "none"
    /\ \E h \in {erase(CurArray, idx)} : ArrayBecomes(h)

PopBack ==
    /\ arrayAborted = "none"
    /\ \E h \in {popBack(CurArray)} : ArrayBecomes(h)

Subscript(idx) ==
    /\ arrayAborted = "none"
    /\ \E h \in {subscript(CurArray, idx)} : ArrayBecomes(h)

AssignAt(idx, item) ==
    /\ arrayAborted = "none"
    /\ \E h \in {assignAt(CurArray, idx, item)} : ArrayBecomes(h)

ArrayFind(item) ==
    /\ arrayAborted = "none"
    /\ DynamicArray_find(CurArray, item) \in Int
    /\ UNCHANGED vars

ArraySize ==
    /\ arrayAborted = "none"
    /\ DynamicArray_size(CurArray) \in Nat
    /\ UNCHANGED vars

\* DynamicArray<int> b(a): b is built beside the array and dropped; a
\* read outside the allocation of a stops the program
ArrayCopy(garbage) ==
    /\ arrayAborted = "none"
    /\ \E b \in {DynamicArray_copy(CurArray, garbage)} :
           ArrayBecomes([CurArray EXCEPT !.failed = b.failed])

ArrayNext ==
    \/ \E newSize \in 0..MaxNumItems : Resize(newSize)
    \/ \E item \in Items : PushBack(item)
    \/ \E idx \in 0..MaxNumItems, item \in Items : ArrayInsert(idx, item)
    \/ \E idx \in 0..MaxNumItems : Erase(idx)
    \/ PopBack
    \/ \E idx \in 0..MaxNumItems : Subscript(idx)
    \/ \E idx \in 0..MaxNumItems, item \in Items : AssignAt(idx, item)
    \/ \E item \in Items : ArrayFind(item)
    \/ ArraySize
    \/ \E garbage \in 0..MaxGarbage : ArrayCopy(garbage)

ArraySpec == Init /\ [][ArrayNext]_vars

\* ------------------------------------------------------- observations
\* the nodes reached from the nodes of S over left and right
RECURSIVE ReachFrom(_, _)
ReachFrom(ns, S) ==
    LET S2 == S \cup (({ns[n].left : n \in S} \cup {ns[n].right : n \in S})
                       \ {NULL})
    IN  IF S2 = S THEN S ELSE ReachFrom(ns, S2)

Subtree(ns, n) == IF n = NULL THEN {} ELSE ReachFrom(ns, {n})

Reachable(t) == Subtree(t.nodes, t.root)

\* the keys of the map and the item stored with a key
KeySet(t) == {t.nodes[n].key : n \in Reachable(t)}

NodeOf(t, k) == CHOOSE n \in Reachable(t) : t.nodes[n].key = k

Entries(t) == {<<t.nodes[n].key, t.nodes[n].item>> : n \in Reachable(t)}

\* the keys met by an in-order traversal below n (d bounds the depth)
RECURSIVE InOrder(_, _, _)
InOrder(ns, n, d) ==
    IF n = NULL \/ d = 0 THEN <<>>
    ELSE InOrder(ns, ns[n].left, d - 1) \o <<ns[n].key>>
           \o InOrder(ns, ns[n].right, d - 1)

InOrderKeys(t) == InOrder(t.nodes, t.root, MaxNodes)

StrictlyAscending(q) == \A i \in 1..(Len(q) - 1) : q[i] < q[i + 1]

\* the height of the subtree below n, counted on the links (not read from
\* the height fields); a missing child has height -1
RECURSIVE HeightOf(_, _, _)
HeightOf(ns, n, d) ==
    IF n = NULL THEN -1
    ELSE IF d = 0 THEN MaxNodes
    ELSE 1 + Max(HeightOf(ns, ns[n].left, d - 1),
                 HeightOf(ns, ns[n].right, d - 1))

IsBST(t) ==
    \A n \in Reachable(t) :
        /\ \A m \in Subtree(t.nodes, t.nodes[n].left) :
               t.nodes[m].key < t.nodes[n].key
        /\ \A m \in Subtree(t.nodes, t.nodes[n].right) :
               t.nodes[m].key > t.nodes[n].key

IsBalanced(t) ==
    \A n \in Reachable(t) :
        Abs(HeightOf(t.nodes, t.nodes[n].left, MaxNodes)
            - HeightOf(t.nodes, t.nodes[n].right, MaxNodes)) <= 1

HeightsCorrect(t) ==
    \A n \in t.live \cup Reachable(t) :
        LET l == t.nodes[n].left
            r == t.nodes[n].right
        IN  t.nodes[n].height =
                1 + Max(IF l = NULL THEN -1 ELSE t.nodes[l].height,
                        IF r = NULL THEN -1 ELSE t.nodes[r].height)

ParentsConsistent(t) ==
    /\ \A n \in t.live \cup Reachable(t) :
           /\ t.nodes[n].left # NULL => t.nodes[t.nodes[n].left].parent = n
           /\ t.nodes[n].right # NULL => t.nodes[t.nodes[n].right].parent = n
    /\ {n \in t.live \cup Reachable(t) : t.nodes[n].parent = NULL}
           = (IF t.root = NULL THEN {} ELSE {t.root})
    /\ (t.root = NULL) <=> (t.live = {})

\* the map after update(k, 0) for each k of q in turn, from t
RECURSIVE updateAll(_, _)
updateAll(t, q) ==
    IF q = <<>> THEN t ELSE updateAll(update(t, Head(q), 0), Tail(q))

\* the maps of the scenarios of the specification, built from a map t
\* that is empty
ScenarioA(t) == updateAll(t, <<50, 30, 70, 20, 40, 60, 80>>)

ScenarioB(t, i) == updateAll(t, [j \in 1..i |-> j])

ScenarioC(t) == updateAll(t, <<10, 20, 30, 40, 50>>)

\* the program is running (no assertion has failed), so a call can be made
Running == aborted = "none"

HasTwoChildren(t, n) == t.nodes[n].left # NULL /\ t.nodes[n].right # NULL

\* ------------------------------------------------------------- claims

\* C1: after any sequence of update and remove calls from the empty map,
\* every node's left subtree holds only smaller keys and its right subtree
\* only larger keys, and the in-order traversal is strictly ascending; the
\* keys 50,30,70,20,40,60,80 inserted in that order into an empty map are
\* traversed as 20,30,40,50,60,70,80.
C1_BinarySearchTree ==
    /\ IsBST(Cur)
    /\ StrictlyAscending(InOrderKeys(Cur))
    /\ Len(InOrderKeys(Cur)) = Cardinality(Reachable(Cur))
    /\ size(Cur) = 0 =>
           /\ InOrderKeys(ScenarioA(Cur)) = <<20, 30, 40, 50, 60, 70, 80>>
           /\ IsBST(ScenarioA(Cur))

\* C1 witness: a full map one of whose keys sits in a node with two
\* children, and removing that key leaves a search tree.
C1_Witness ==
    /\ avlSize = MaxKey
    /\ \E k \in KeySet(Cur) :
           /\ HasTwoChildren(Cur, NodeOf(Cur, k))
           /\ IsBST(remove(Cur, k))
           /\ Len(InOrderKeys(remove(Cur, k))) = MaxKey - 1

\* C2: after every completed update or remove, the heights of the left and
\* right subtrees of every node differ by at most 1 (a missing child has
\* height -1); so it is after each insertion of the ascending keys 1..7.
C2_Balanced ==
    /\ IsBalanced(Cur)
    /\ size(Cur) = 0 =>
           \A i \in 1..7 :
               /\ IsBalanced(ScenarioB(Cur, i))
               /\ InOrderKeys(ScenarioB(Cur, i)) = [j \in 1..i |-> j]

\* C2 witness: a map into which the insertion of an absent key replaces
\* the root (fixUp rotates at the root) and that is balanced afterwards.
C2_Witness ==
    /\ root # NULL
    /\ \E k \in Keys \ KeySet(Cur) :
           LET t2 == update(Cur, k, 0)
           IN  /\ t2.nodes[t2.root].key # nodes[root].key
               /\ IsBalanced(t2)

\* C3: after every completed update or remove, the height field of every
\* node of the tree is 1 + the larger of its children's height fields, a
\* missing child counting -1, and equals the height counted on the links
\* (so a leaf has height 0).
C3_HeightsCorrect ==
    /\ HeightsCorrect(Cur)
    /\ \A n \in Reachable(Cur) :
           nodes[n].height = HeightOf(nodes, n, MaxNodes)

\* C3 witness: a map of height 2 from which the removal of a key replaces
\* the root (a rotation after remove) and leaves all height fields right.
C3_Witness ==
    /\ root # NULL
    /\ nodes[root].height = 2
    /\ \E k \in KeySet(Cur) :
           LET t2 == remove(Cur, k)
           IN  /\ k # nodes[root].key
               /\ t2.nodes[t2.root].key # nodes[root].key
               /\ HeightsCorrect(t2)

\* C4: after every completed update or remove, each child's parent field
\* names the node it hangs under, the root's parent is NULL, and root is
\* the only node without a parent (NULL exactly when the map is empty).
C4_ParentsConsistent == ParentsConsistent(Cur)

\* C4 witness: a map in which the removal of a key plucks a node that has
\* a child (the child is given a new parent), with consistent parents after.
C4_Witness ==
    \E k \in KeySet(Cur) :
        LET node == NodeOf(Cur, k)
            pluck == maxOfLeft(nodes, nodes[node].left, node)
        IN  /\ nodes[pluck].left # NULL \/ nodes[pluck].right # NULL
            /\ nodes[pluck].parent # NULL
            /\ ParentsConsistent(remove(Cur, k))

\* C5: after any sequence of update, operator[] and remove calls, size()
\* is the number of nodes reachable from the root, which is the number of
\* distinct keys in the map (and of allocated nodes).
C5_SizeIsNodeCount ==
    /\ size(Cur) = Cardinality(Reachable(Cur))
    /\ size(Cur) = Cardinality(KeySet(Cur))
    /\ Reachable(Cur) = live

\* C5 witness: a map with several entries that is not full, so that
\* entries have been added and a further one can be.
C5_Witness ==
    /\ size(Cur) = MaxKey - 1
    /\ \E k \in Keys \ KeySet(Cur) : k < MaxKey
    /\ size(index(Cur, MaxKey)[1]) = size(Cur)

\* the number of children of node n
ChildCount(t, n) ==
    (IF t.nodes[n].left # NULL THEN 1 ELSE 0)
      + (IF t.nodes[n].right # NULL THEN 1 ELSE 0)

\* C6: update(k, v) with k absent increases size() by exactly 1, at(k)
\* then returns v, and every entry that was in the map is still present
\* with the item it had.
C6_UpdateAbsent ==
    Running =>
    \A k \in Keys \ KeySet(Cur), v \in Items :
        LET t2 == update(Cur, k, v)
        IN  /\ t2.failed = "none"
            /\ size(t2) = size(Cur) + 1
            /\ at(t2, k) = <<t2, v>>
            /\ \A k2 \in KeySet(Cur) :
                   /\ hasKey(t2, k2)
                   /\ at(t2, k2) = <<t2, at(Cur, k2)[2]>>
            /\ Entries(t2) = Entries(Cur) \cup {<<k, v>>}

\* C6 witness: a map holding non-default items into which an absent key is
\* inserted with a rotation (the root changes), and at returns its item.
C6_Witness ==
    /\ \E n \in Reachable(Cur) : nodes[n].item = MaxItem
    /\ \E k \in Keys \ KeySet(Cur) :
           LET t2 == update(Cur, k, MaxItem)
           IN  /\ size(Cur) >= 2
               /\ t2.root # NULL
               /\ t2.nodes[t2.root].key # nodes[root].key
               /\ at(t2, k)[2] = MaxItem
               /\ size(t2) = size(Cur) + 1

\* C7: update(k, v2) with k present overwrites in place: the node of k
\* holds v2, it is the only node with key k, size() is unchanged, and
\* nothing else of the map or of any node (links, heights, keys, other
\* items) changes.
C7_Overwrite ==
    Running =>
    \A k \in KeySet(Cur), v2 \in Items :
        LET t2 == update(Cur, k, v2)
            n == NodeOf(Cur, k)
        IN  /\ t2 = [Cur EXCEPT !.nodes[n].item = v2]
            /\ size(t2) = size(Cur)
            /\ Cardinality({m \in Reachable(t2) : t2.nodes[m].key = k}) = 1
            /\ at(t2, k) = <<t2, v2>>

\* C7 witness: a map of several entries in which a key below the root
\* holds an item, and update with another item changes that item only.
C7_Witness ==
    \E k \in KeySet(Cur) :
        LET n == NodeOf(Cur, k)
        IN  /\ n # root
            /\ size(Cur) >= 3
            /\ nodes[n].item = 0
            /\ update(Cur, k, MaxItem).nodes[n].item = MaxItem
            /\ update(Cur, k, MaxItem).root = root

\* C8: remove(k) with k present, whatever the number of children of its
\* node, leaves hasKey(k) false, decreases size() by exactly 1 and keeps
\* every other key with its item; from the map holding 10,20,30,40,50,
\* remove(30) leaves 10,20,40,50 in order.
C8_RemovePresent ==
    /\ Running => \A k \in KeySet(Cur) :
           LET t2 == remove(Cur, k)
           IN  /\ t2.failed = "none"
               /\ ~hasKey(t2, k)
               /\ size(t2) = size(Cur) - 1
               /\ \A k2 \in KeySet(Cur) \ {k} :
                      /\ hasKey(t2, k2)
                      /\ at(t2, k2) = <<t2, at(Cur, k2)[2]>>
               /\ Entries(t2) = Entries(Cur) \ {<<k, at(Cur, k)[2]>>}
    /\ size(Cur) = 0 =>
           InOrderKeys(remove(ScenarioC(Cur), 30)) = <<10, 20, 40, 50>>

\* C8 witness: a map with a leaf, a node with one child and a node with
\* two children whose predecessor holds another item, each removable.
C8_Witness ==
    /\ \A c \in 0..2 :
           \E k \in KeySet(Cur) :
               /\ ChildCount(Cur, NodeOf(Cur, k)) = c
               /\ ~hasKey(remove(Cur, k), k)
               /\ size(remove(Cur, k)) = size(Cur) - 1
    /\ \E k \in KeySet(Cur) :
           LET n == NodeOf(Cur, k)
           IN  /\ ChildCount(Cur, n) = 2
               /\ nodes[maxOfLeft(nodes, nodes[n].left, n)].item
                      # nodes[n].item

\* C9: remove(k) with k absent, also on the empty map, fails the assertion
\* of remove with the map as it was: no node is changed or freed and
\* avlSize is not decremented; and a program stopped by that assertion
\* holds a map that lacks some key.
C9_RemoveAbsent ==
    /\ Running => \A k \in Keys \ KeySet(Cur) :
           remove(Cur, k) = [Cur EXCEPT !.failed = "remove: key is in the tree"]
    /\ aborted = "remove: key is in the tree" => Keys \ KeySet(Cur) # {}

\* C9 witness: the program aborted in remove on a map that holds entries
\* (the key asked for lies between two keys of the map).
C9_Witness ==
    /\ aborted = "remove: key is in the tree"
    /\ size(Cur) >= 2
    /\ \E k \in Keys \ KeySet(Cur) :
           \E a, b \in KeySet(Cur) : a < k /\ k < b

\* C10: at(k) never creates an entry: with k present it returns the item
\* of k and the map is as before; with k absent it fails its assertion and
\* the map (nodes, root, size) is as before.
C10_At ==
    Running =>
    \A k \in Keys :
        LET r == at(Cur, k)
        IN  IF k \in KeySet(Cur)
            THEN r = <<Cur, nodes[NodeOf(Cur, k)].item>>
            ELSE r[1] = [Cur EXCEPT !.failed = "at: key is in the tree"]

\* C10 witness: the program aborted in at on a map that holds an entry
\* with a non-default item, which at returns for its key.
C10_Witness ==
    /\ aborted = "at: key is in the tree"
    /\ \E k \in KeySet(Cur) : at(Cur, k) = <<Cur, MaxItem>>
    /\ size(Cur) < MaxKey

\* C11: operator[](k) with k absent creates an entry for k that holds the
\* default item T() (the size grows by 1, the other entries are as before)
\* and returns a reference to the item of that entry; with k present it
\* returns a reference to the item of the entry of k and the map, its size
\* and its entries are as before.
C11_Index ==
    Running =>
    \A k \in Keys :
        LET r == index(Cur, k)
        IN  IF k \in KeySet(Cur)
            THEN r = <<Cur, NodeOf(Cur, k)>>
            ELSE /\ r[1].failed = "none"
                 /\ size(r[1]) = size(Cur) + 1
                 /\ Entries(r[1]) = Entries(Cur) \cup {<<k, 0>>}
                 /\ r[2] = NodeOf(r[1], k)
                 /\ itemAt(r) = <<r[1], 0>>

\* C11 witness: a map with an entry holding a non-default item, which
\* operator[] returns, and lacking a key, which operator[] creates.
C11_Witness ==
    /\ Running
    /\ \E k \in KeySet(Cur) : itemAt(index(Cur, k)) = <<Cur, MaxItem>>
    /\ \E k \in Keys \ KeySet(Cur) : size(index(Cur, k)[1]) = size(Cur) + 1
    /\ \E k \in Keys \ KeySet(Cur) : \E j \in KeySet(Cur) : j < k

\* C12: for every key j, hasKey(j) is true iff j was inserted (by update or
\* by operator[]) and not removed since: it is false for every key of the
\* new map, true for a key exactly when a node of the tree holds it, and
\* each call moves it as the history does: update(k, v) and operator[](k)
\* make it true for k, remove(k) makes it false for k, and none of them
\* changes it for another key.  (hasKey is a const member that only reads:
\* the action HasKey leaves the map as it is.)
C12_HasKey ==
    /\ \A j \in Keys : ~hasKey(EmptyMap, j)
    /\ Running =>
       /\ \A j \in Keys : hasKey(Cur, j) <=> j \in KeySet(Cur)
       /\ \A k \in Keys, v \in Items :
              LET t2 == update(Cur, k, v)
              IN  \A j \in Keys : hasKey(t2, j) <=> (j = k \/ hasKey(Cur, j))
       /\ \A k \in Keys :
              LET t2 == index(Cur, k)[1]
              IN  \A j \in Keys : hasKey(t2, j) <=> (j = k \/ hasKey(Cur, j))
       /\ \A k \in KeySet(Cur) :
              LET t2 == remove(Cur, k)
              IN  \A j \in Keys : hasKey(t2, j) <=> (j # k /\ hasKey(Cur, j))

\* C12 witness: a map of at least three entries that lacks a key lying
\* between two of its keys: findNode ends on a node holding another key.
C12_Witness ==
    /\ Running
    /\ size(Cur) >= 3
    /\ \E j \in Keys \ KeySet(Cur) :
           /\ ~hasKey(Cur, j)
           /\ findNode(Cur, j) # NULL
           /\ \E a, b \in KeySet(Cur) : a < j /\ j < b /\ hasKey(Cur, a)

\* the least and the greatest key of a non-empty set of keys
MinKey(S) == CHOOSE k \in S : \A j \in S : k <= j

MaxKeyOf(S) == CHOOSE k \in S : \A j \in S : j <= k

\* C13: begin() is positioned on the node that holds the minimum key of the
\* map when the map has entries, and is the end sentinel (node NULL) when
\* it has none; end() is the sentinel.
C13_Begin ==
    Running =>
    /\ end(Cur) = [node |-> NULL, failed |-> "none"]
    /\ IF KeySet(Cur) = {}
       THEN begin(Cur) = end(Cur)
       ELSE /\ begin(Cur).node \in Reachable(Cur)
            /\ begin(Cur).failed = "none"
            /\ iterKey(nodes, begin(Cur)) = MinKey(KeySet(Cur))

\* C13 witness: the minimum key is held two links below the root.
C13_Witness ==
    /\ Running
    /\ root # NULL
    /\ nodes[root].left # NULL
    /\ begin(Cur).node = nodes[nodes[root].left].left
    /\ begin(Cur).node # NULL

\* the iterator positioned on the node n
IterAt(n) == [node |-> n, failed |-> "none"]

\* the iterator after i advances from iter
RECURSIVE advanceTimes(_, _, _)
advanceTimes(ns, iter, i) ==
    IF i = 0 THEN iter ELSE advanceTimes(ns, advance(ns, iter), i - 1)

\* C14: on a map that is not modified, advance from the node of a key
\* moves to the node of the next larger key of the map, or to the end
\* sentinel when the key is the greatest; so from begin() the i-th advance,
\* i < n = size(), is on the (i+1)-th key in ascending order, the n-th
\* advance is end() (on a map of 5 entries: the 5th), and the traversal of
\* printTree prints every entry once, in strictly ascending order of key.
C14_Advance ==
    Running =>
    /\ \A n \in Reachable(Cur) :
           LET larger == {k \in KeySet(Cur) : k > nodes[n].key}
               iter == advance(nodes, IterAt(n))
           IN  /\ iter.failed = "none"
               /\ IF larger = {} THEN iter = end(Cur)
                  ELSE /\ iter.node \in Reachable(Cur)
                       /\ iterKey(nodes, iter) = MinKey(larger)
    /\ \A i \in 0..(size(Cur) - 1) :
           /\ advanceTimes(nodes, begin(Cur), i).node # NULL
           /\ iterKey(nodes, advanceTimes(nodes, begin(Cur), i))
                  = InOrderKeys(Cur)[i + 1]
    /\ advanceTimes(nodes, begin(Cur), size(Cur)) = end(Cur)
    /\ Len(printTree(Cur)) = size(Cur)
    /\ StrictlyAscending([i \in 1..Len(printTree(Cur)) |-> printTree(Cur)[i][1]])
    /\ {printTree(Cur)[i] : i \in 1..Len(printTree(Cur))} = Entries(Cur)

\* C14 witness: a map of 5 entries on which the 5th advance from begin()
\* is end(), and on which some advance crawls up two links.
C14_Witness ==
    /\ Running
    /\ size(Cur) = 5
    /\ advanceTimes(nodes, begin(Cur), 4).node # NULL
    /\ advanceTimes(nodes, begin(Cur), 5) = end(Cur)
    /\ \E n \in Reachable(Cur) :
           /\ nodes[n].right = NULL
           /\ nodes[n].parent # NULL
           /\ advance(nodes, IterAt(n)).node = nodes[nodes[n].parent].parent
           /\ advance(nodes, IterAt(n)).node # NULL

\* the end iterator after the failed assertion of advance
FailedAtEnd == [node |-> NULL, failed |-> "advance: node != NULL"]

\* C15: advancing an iterator that is at the end sentinel, by advance, by
\* prefix ++ or by postfix ++, fails the assertion of advance, and the
\* iterator is still at the sentinel: this holds of end() of every map and
\* of the iterator that has traversed the whole map from begin().
C15_AdvanceAtEnd ==
    Running =>
    /\ advance(nodes, end(Cur)) = FailedAtEnd
    /\ preIncrement(nodes, end(Cur))[1] = FailedAtEnd
    /\ \A r \in postIncrement(nodes, end(Cur)) : r[1] = FailedAtEnd
    /\ advanceTimes(nodes, begin(Cur), size(Cur) + 1) = FailedAtEnd
    /\ \A n \in Reachable(Cur) :
           advance(nodes, IterAt(n)).node = NULL =>
               /\ preIncrement(nodes, advance(nodes, IterAt(n)))[1] = FailedAtEnd
               /\ \A r \in postIncrement(nodes, advance(nodes, IterAt(n))) :
                      r[1] = FailedAtEnd

\* C15 witness: a map with entries whose traversal from begin() has come
\* to the end sentinel by an advance from the greatest key, where one more
\* advance fails.
C15_Witness ==
    /\ Running
    /\ size(Cur) >= 3
    /\ advanceTimes(nodes, begin(Cur), size(Cur) - 1).node
           = NodeOf(Cur, MaxKeyOf(KeySet(Cur)))
    /\ advanceTimes(nodes, begin(Cur), size(Cur)).failed = "none"
    /\ advanceTimes(nodes, begin(Cur), size(Cur) + 1).failed
           = "advance: node != NULL"

\* C16: the assertion abs(lh-rh) <= 2 of fixUp never fails: no update,
\* operator[] or remove of a key of the map, called on a map reached from
\* the empty map, fails it, and the program is never stopped by it.
C16_FixUpAssertion ==
    /\ aborted # "fixUp: abs(lh-rh) <= 2"
    /\ Running =>
       /\ \A k \in Keys, v \in Items :
              update(Cur, k, v).failed # "fixUp: abs(lh-rh) <= 2"
       /\ \A k \in Keys :
              index(Cur, k)[1].failed # "fixUp: abs(lh-rh) <= 2"
       /\ \A k \in KeySet(Cur) :
              remove(Cur, k).failed # "fixUp: abs(lh-rh) <= 2"

\* C16 witness: a map on which an inserting update meets a node whose
\* child heights differ by 2 (a node of the map gets another parent) and on
\* which a remove meets such a node at the root (the root is rotated down).
C16_Witness ==
    /\ Running
    /\ \E k \in Keys \ KeySet(Cur) :
           /\ update(Cur, k, 0).failed = "none"
           /\ \E n \in Reachable(Cur) :
                  update(Cur, k, 0).nodes[n].parent # nodes[n].parent
    /\ \E k \in KeySet(Cur) :
           /\ remove(Cur, k).failed = "none"
           /\ remove(Cur, k).root # root
           /\ root \in remove(Cur, k).live

\* the node remove(k) detaches: pluck after the loop of remove
PluckOf(t, k) ==
    maxOfLeft(t.nodes, t.nodes[findNode(t, k)].left, findNode(t, k))

\* C17: in every remove of a key k of the map, the node P that is detached
\* is the node of the greatest key of the left subtree of the node of k, or
\* that node itself when it has no left child; P has at most one child; the
\* left child of P, if any, has no right child, so that the assertion of
\* pluckNode holds: no remove fails it and the program is never stopped by
\* it.
C17_PluckAssertion ==
    /\ aborted # "pluckNode: child->right == NULL"
    /\ Running =>
       \A k \in KeySet(Cur) :
           LET node == NodeOf(Cur, k)
               P == PluckOf(Cur, k)
               below == {nodes[n].key : n \in Subtree(nodes, nodes[node].left)}
           IN  /\ IF nodes[node].left = NULL THEN P = node
                  ELSE /\ P \in Subtree(nodes, nodes[node].left)
                       /\ nodes[P].key = MaxKeyOf(below)
               /\ ChildCount(Cur, P) <= 1
               /\ nodes[P].left # NULL => nodes[nodes[P].left].right = NULL
               /\ remove(Cur, k).failed = "none"

\* C17 witness: a key whose node has two children and whose detached node
\* P is another node that has a left child.
C17_Witness ==
    /\ Running
    /\ \E k \in KeySet(Cur) :
           /\ HasTwoChildren(Cur, NodeOf(Cur, k))
           /\ PluckOf(Cur, k) # NodeOf(Cur, k)
           /\ nodes[PluckOf(Cur, k)].left # NULL
           /\ remove(Cur, k).failed = "none"

\* An iterator that was on node n of the current map, seen on the map t2
\* after a call: n is still allocated and a node of the tree, holds the key
\* it held, and the advances from n go through the larger keys of t2 in
\* ascending order and then to the end sentinel.
Survives(t2, n) ==
    LET reach == Reachable(t2)
        larger == {j \in {t2.nodes[m].key : m \in reach} : j > nodes[n].key}
    IN  /\ t2.failed = "none"
        /\ n \in t2.live
        /\ n \in reach
        /\ t2.nodes[n].key = nodes[n].key
        /\ \A i \in 1..Cardinality(larger) :
               LET iter == advanceTimes(t2.nodes, IterAt(n), i)
               IN  /\ iter.node \in reach
                   /\ iterKey(t2.nodes, iter) \in larger
                   /\ Cardinality({j \in larger : j < iterKey(t2.nodes, iter)})
                          = i - 1
        /\ advanceTimes(t2.nodes, IterAt(n), Cardinality(larger) + 1) = end(t2)

\* C18 as stated: after an inserting update(k, v) or a remove(k), an
\* iterator on a key strictly less than k (hence not on the removed key)
\* still names a live node of the map that holds the same key, and its
\* advances yield the remaining larger keys in ascending order.
C18_AsStated ==
    Running =>
    /\ \A k \in Keys \ KeySet(Cur), v \in Items :
           LET t2 == update(Cur, k, v)
           IN  \A n \in Reachable(Cur) :
                   nodes[n].key < k => Survives(t2, n)
    /\ \A k \in KeySet(Cur) :
           LET t2 == remove(Cur, k)
           IN  \A n \in Reachable(Cur) :
                   nodes[n].key < k => Survives(t2, n)

\* C18 amended: the same, for every iterator on a key strictly less than k
\* except, for remove(k), the iterator on the node that remove detaches and
\* deletes: the node of the greatest key of the left subtree of the node of
\* k, whose key and item are copied into the node of k.
C18_IteratorsBefore ==
    Running =>
    /\ \A k \in Keys \ KeySet(Cur), v \in Items :
           LET t2 == update(Cur, k, v)
           IN  \A n \in Reachable(Cur) :
                   nodes[n].key < k => Survives(t2, n)
    /\ \A k \in KeySet(Cur) :
           LET t2 == remove(Cur, k)
           IN  \A n \in Reachable(Cur) :
                   (nodes[n].key < k /\ n # PluckOf(Cur, k))
                       => Survives(t2, n)

\* C18 witness: a remove(k) whose detached node is not the node of k, and
\* an iterator on a smaller key and on another node than the detached one,
\* which gets another parent by the call and survives it; and an inserting
\* update(k2, v) after which an iterator on a smaller key, whose node gets
\* another parent, survives.
C18_Witness ==
    /\ Running
    /\ \E k \in KeySet(Cur), n \in Reachable(Cur) :
           /\ nodes[n].key < k
           /\ PluckOf(Cur, k) # NodeOf(Cur, k)
           /\ n # PluckOf(Cur, k)
           /\ Survives(remove(Cur, k), n)
    /\ \E k \in Keys \ KeySet(Cur), n \in Reachable(Cur) :
           /\ nodes[n].key < k
           /\ update(Cur, k, 0).nodes[n].parent # nodes[n].parent
           /\ Survives(update(Cur, k, 0), n)

\* the map t holds no entry: hasKey is false for every key
HoldsNoEntries(t) == \A k \in Keys : ~hasKey(t, k)

\* size() == 0, the root is NULL and begin() == end() on the map t
IsEmptyMap(t) ==
    /\ size(t) = 0
    /\ t.root = NULL
    /\ t.live = {}
    /\ begin(t) = end(t)

\* C19: whenever the map holds no entries, size() is 0, the root is NULL
\* and begin() equals end(): on the new map, on every reachable map without
\* entries, and on the map left by removing the only key of a map of one
\* entry (the last key that remained of any map).
C19_Empty ==
    /\ IsEmptyMap(EmptyMap)
    /\ Running =>
       /\ HoldsNoEntries(Cur) => IsEmptyMap(Cur)
       /\ size(Cur) = 1 =>
              \A k \in KeySet(Cur) :
                  /\ remove(Cur, k).failed = "none"
                  /\ HoldsNoEntries(remove(Cur, k))
                  /\ IsEmptyMap(remove(Cur, k))

\* C19 witness: a map of one entry, on which begin() is not end(), whose
\* only key remove takes away.
C19_Witness ==
    /\ Running
    /\ size(Cur) = 1
    /\ root # NULL
    /\ begin(Cur) # end(Cur)
    /\ \E k \in KeySet(Cur) :
           /\ nodes[root].key = k
           /\ nodes[root].item = MaxItem
           /\ IsEmptyMap(remove(Cur, k))

\* the list program runs: no assertion has stopped it
ListRunning == listAborted = "none"

\* the links of list l are as checkList asserts them
WellLinked(h, l) ==
    LET first == h.lists[l].first
        last == h.lists[l].last
    IN  h.lists[l].listSize # 0 =>
        /\ first # NULL /\ last # NULL
        /\ h.nodes[first].prev = NULL
        /\ h.nodes[last].next = NULL
        /\ \A n \in NodesOf(h, l) :
               /\ n \in h.live
               /\ n # last =>
                      /\ h.nodes[n].next # NULL
                      /\ h.nodes[h.nodes[n].next].prev = n

\* C20: after any sequence of insertFront, insertBack, insertBefore,
\* removeFront, removeBack, removeNode, clear and assignment, every list
\* that is not empty has first->prev == NULL and last->next == NULL, and
\* every node n of it other than last has n->next != NULL and
\* n->next->prev == n.
C20_WellLinked ==
    \A l \in Lists : WellLinked(CurLists, l)

\* C20 witness: a list of at least three nodes (one of them is neither
\* first nor last) beside another list that is not empty, from which
\* insertBefore and removeNode on the middle node keep the links.
C20_Witness ==
    /\ ListRunning
    /\ lists["list"].listSize >= 3
    /\ lists["listCopy"].listSize >= 1
    /\ \E n \in NodesOf(CurLists, "list") :
           /\ n # lists["list"].first
           /\ n # lists["list"].last
           /\ listNodes[n].item # listNodes[lists["list"].first].item
           /\ WellLinked(removeNode(CurLists, "list", n), "list")
           /\ listSizeOf(removeNode(CurLists, "list", n), "list") = 2

\* the nodes of list l in order, from first along next
ChainOf(h, l) == ChainFrom(h.nodes, h.lists[l].first, {})

\* size() counts the nodes from first to last, and first and last are NULL
\* exactly on the list of size 0 and equal on the list of size 1
SizeIsNodeCount(h, l) ==
    /\ listSizeOf(h, l) = Len(ChainOf(h, l))
    /\ ChainOf(h, l) # <<>> =>
           /\ ChainOf(h, l)[Len(ChainOf(h, l))] = getLast(h, l)
           /\ h.nodes[getLast(h, l)].next = NULL
    /\ listSizeOf(h, l) = 0 <=> (getFirst(h, l) = NULL /\ getLast(h, l) = NULL)
    /\ getFirst(h, l) = NULL <=> getLast(h, l) = NULL
    /\ listSizeOf(h, l) = 1 => getFirst(h, l) = getLast(h, l)

\* C21: after any sequence of list operations, size() of every list is the
\* number of nodes met from first along next up to and including last;
\* size() is 0 iff first and last are both NULL; and size() is 1 only if
\* first and last are the same node.
C21_SizeIsNodeCount ==
    \A l \in Lists : SizeIsNodeCount(CurLists, l)

\* C21 witness: a list of one node, which removeFront and removeBack empty,
\* beside a list of at least two nodes.
C21_Witness ==
    /\ ListRunning
    /\ listSizeOf(CurLists, "list") = 1
    /\ listSizeOf(CurLists, "listCopy") >= 2
    /\ getFirst(CurLists, "listCopy") # getLast(CurLists, "listCopy")
    /\ listSizeOf(removeFront(CurLists, "list"), "list") = 0
    /\ getLast(removeFront(CurLists, "list"), "list") = NULL
    /\ getFirst(removeBack(CurLists, "list"), "list") = NULL

\* the items of list l in order, from first along next
ItemsOf(h, l) ==
    [i \in 1..Len(ChainOf(h, l)) |-> h.nodes[ChainOf(h, l)[i]].item]

\* the list `other` is in h2 as it is in the current state: the same
\* members, the same nodes in the same order, the same items
Untouched(h2, other) ==
    /\ h2.lists[other] = lists[other]
    /\ ChainOf(h2, other) = ChainOf(CurLists, other)
    /\ ItemsOf(h2, other) = ItemsOf(CurLists, other)
    /\ \A n \in NodesOf(CurLists, other) : h2.nodes[n] = listNodes[n]

\* the list l of h2 is a copy of the list rhs of the current state
IsCopyOf(h2, l, rhs) ==
    /\ h2.failed = "none"
    /\ ItemsOf(h2, l) = ItemsOf(CurLists, rhs)
    /\ listSizeOf(h2, l) = listSizeOf(CurLists, rhs)
    /\ NodesOf(h2, l) \cap NodesOf(h2, rhs) = {}
    /\ NodesOf(h2, l) \subseteq h2.live
    /\ Untouched(h2, rhs)

\* the calls that insert into or remove from list l, on the current state
MutationsOf(l) ==
    {insertFront(CurLists, l, x) : x \in Items}
      \cup {insertBack(CurLists, l, x) : x \in Items}
      \cup {insertBefore(CurLists, l, x, link) :
                x \in Items, link \in NodesOf(CurLists, l)}
      \cup {removeNode(CurLists, l, node) : node \in NodesOf(CurLists, l)}
      \cup {removeFront(CurLists, l), removeBack(CurLists, l),
            clear(CurLists, l)}

\* C22: a list made from another list (not itself) by operator= or by the
\* copy constructor holds the items of the source in the same order, shares
\* no node with it, and leaves the source as it was; two lists never share
\* a node, and no insertion or removal on one list changes the other, so
\* that the copy and the source stay independent afterwards.
C22_Copy ==
    ListRunning =>
    \A l \in Lists : \A rhs \in Lists \ {l} :
        /\ NodesOf(CurLists, l) \cap NodesOf(CurLists, rhs) = {}
        /\ assign(CurLists, l, rhs).failed # "bad_alloc"
               => IsCopyOf(assign(CurLists, l, rhs), l, rhs)
        /\ (lists[l] = EmptyList
               /\ copyConstruct(CurLists, l, rhs).failed # "bad_alloc")
               => IsCopyOf(copyConstruct(CurLists, l, rhs), l, rhs)
        /\ \A h2 \in MutationsOf(l) :
               h2.failed # "bad_alloc" => Untouched(h2, rhs)

\* C22 witness: a source of two nodes with different items and a target
\* holding another item, which operator= makes a copy of the source; the
\* source and its copy are then changed by a call on the other.
C22_Witness ==
    /\ ListRunning
    /\ Len(ItemsOf(CurLists, "list")) = 2
    /\ ItemsOf(CurLists, "list")[1] # ItemsOf(CurLists, "list")[2]
    /\ Len(ItemsOf(CurLists, "listCopy")) = 1
    /\ ItemsOf(CurLists, "listCopy")[1] = ItemsOf(CurLists, "list")[2]
    /\ IsCopyOf(assign(CurLists, "listCopy", "list"), "listCopy", "list")
    /\ ItemsOf(assign(CurLists, "listCopy", "list"), "listCopy")
           = ItemsOf(CurLists, "list")
    /\ \E h2 \in MutationsOf("list") :
           /\ h2.failed = "none"
           /\ ItemsOf(h2, "list") # ItemsOf(CurLists, "list")
           /\ Untouched(h2, "listCopy")

\* the positions of the sequence q that hold x
PositionsOf(q, x) == {i \in 1..Len(q) : q[i] = x}

\* the sequence q without its i-th element
WithoutAt(q, i) ==
    [j \in 1..(Len(q) - 1) |-> IF j < i THEN q[j] ELSE q[j + 1]]

\* ptr = find(x); removeNode(ptr)
removeFound(h, l, x) == removeNode(h, l, find(h, l, x))

\* removeFound, n times
RECURSIVE removeFoundTimes(_, _, _, _)
removeFoundTimes(h, l, x, n) ==
    IF n = 0 THEN h ELSE removeFoundTimes(removeFound(h, l, x), l, x, n - 1)

\* C23: find(x) returns the node closest to the front that holds x, or NULL
\* when no node holds x; removeNode on the node found deletes that node
\* only: size() decreases by 1 and the other nodes and items stay in their
\* order; and after as many such removals as there were nodes holding x,
\* one for each find, find(x) returns NULL and the other items are left.
C23_FindRemove ==
    ListRunning =>
    \A l \in Lists, x \in Items :
        LET items == ItemsOf(CurLists, l)
            chain == ChainOf(CurLists, l)
            held == PositionsOf(items, x)
            ptr == find(CurLists, l, x)
            h2 == removeFound(CurLists, l, x)
            i == CHOOSE j \in held : \A m \in held : j <= m
        IN  IF held = {} THEN ptr = NULL
            ELSE /\ ptr = chain[i]
                 /\ h2.failed = "none"
                 /\ listSizeOf(h2, l) = listSizeOf(CurLists, l) - 1
                 /\ ptr \notin h2.live
                 /\ h2.live = listLive \ {ptr}
                 /\ ChainOf(h2, l) = WithoutAt(chain, i)
                 /\ ItemsOf(h2, l) = WithoutAt(items, i)
                 /\ \A other \in Lists \ {l} : Untouched(h2, other)
                 /\ \A n \in 0..(Cardinality(held) - 1) :
                        find(removeFoundTimes(CurLists, l, x, n), l, x) # NULL
                 /\ find(removeFoundTimes(CurLists, l, x, Cardinality(held)),
                         l, x) = NULL
                 /\ ItemsOf(removeFoundTimes(CurLists, l, x, Cardinality(held)), l)
                        = SelectSeq(items, LAMBDA y : y # x)

\* C23 witness: a list of at least three nodes in which x is held twice,
\* first by a node that is neither first nor last, and which also lacks an
\* item.
C23_Witness ==
    /\ ListRunning
    /\ \E x \in Items :
           /\ Cardinality(PositionsOf(ItemsOf(CurLists, "list"), x)) = 2
           /\ find(CurLists, "list", x) # NULL
           /\ find(CurLists, "list", x) # getFirst(CurLists, "list")
           /\ find(CurLists, "list", x) # getLast(CurLists, "list")
           /\ find(removeFoundTimes(CurLists, "list", x, 2), "list", x) = NULL
           /\ listSizeOf(removeFoundTimes(CurLists, "list", x, 2), "list") >= 1

\* C24: removeFront() and removeBack() on an empty list fail their
\* assertion with first, last and listSize (and every node) as they were;
\* listSize never wraps below 0: it is a count between 0 and the number of
\* nodes allocated; and a program stopped by one of the two assertions
\* holds an empty list.
C24_RemoveOnEmpty ==
    /\ \A l \in Lists : lists[l].listSize \in 0..Cardinality(listLive)
    /\ ListRunning =>
       \A l \in Lists :
           getFirst(CurLists, l) = NULL =>
               /\ removeFront(CurLists, l)
                      = [CurLists EXCEPT !.failed = "removeFront: first != NULL"]
               /\ removeBack(CurLists, l)
                      = [CurLists EXCEPT !.failed = "removeBack: first != NULL"]
    /\ listAborted \in {"removeFront: first != NULL", "removeBack: first != NULL"}
           => \E l \in Lists : lists[l] = EmptyList

\* C24 witness: the program stopped by the assertion of removeBack on an
\* empty list, beside a list of at least two nodes.
C24_Witness ==
    /\ listAborted = "removeBack: first != NULL"
    /\ lists["list"] = EmptyList
    /\ listSizeOf(CurLists, "listCopy") >= 2
    /\ removeFront(CurLists, "list").failed = "removeFront: first != NULL"
    /\ removeFront(CurLists, "list").lists = lists

\* the program has not been stopped by an assertion of the hash table
HashRunning == hashAborted = "none"

\* the items the table h holds, whatever bucket they are in
Held(h) ==
    UNION {{h.table[i][p] : p \in 1..Len(h.table[i])} : i \in DOMAIN h.table}

\* an item that does not differ from item (operator!=) is in the table h
Holds(h, item) == \E held \in Held(h) : ~notEqual(held, item)

\* C25: insert(x) returns true iff no item equal to x (under !=) was in
\* the table; when one was, it returns false and the buckets, size() and
\* the number of buckets are as before; when it returns true, size() is
\* one more than before.
C25_Insert ==
    HashRunning =>
        \A item \in Records :
            LET r == HashTable_insert(CurTable, item)
            IN  /\ r.returned = ~Holds(CurTable, item)
                /\ ~r.returned =>
                       /\ r.after.table = table
                       /\ HashTable_size(r.after) = HashTable_size(CurTable)
                       /\ r.after.tableSize = tableSize
                /\ r.returned =>
                       HashTable_size(r.after) = HashTable_size(CurTable) + 1

\* C25 witness: a full table (the next successful insert grows it) that
\* holds a record of some id with one grade, so that insert of the record
\* with that id and another grade returns false, and lacks another id.
C25_Witness ==
    /\ HashRunning
    /\ numItems = tableSize
    /\ \E item \in Records :
           /\ item \notin Held(CurTable)
           /\ Holds(CurTable, item)
           /\ ~HashTable_insert(CurTable, item).returned
    /\ \E item \in Records :
           /\ HashTable_insert(CurTable, item).returned
           /\ HashTable_insert(CurTable, item).after.tableSize > tableSize

\* the ids of the items the table h holds
HeldIds(h) == {held.id : held \in Held(h)}

\* the table h holds every item once: one node for every id held
HeldOnce(h) == Len(getItemsArray(h)) = Cardinality(HeldIds(h))

\* the records contains(x) is true for
ContainedIn(h) == {x \in Records : contains(h, x)}

\* the two calls of resize the class makes
ResizeArguments(h) == {h.tableSize + 1, h.tableSize - 1}

\* C26: contains(x) is true exactly for the items inserted and not
\* removed since: a new table contains nothing, insert(x) makes contains
\* true for x and remove(x) false, neither changes contains for any other
\* item, with or without a resize of the bucket array; contains(x) holds
\* exactly when some bucket holds x; a resize keeps every item, once.
C26_Contains ==
    /\ \A x \in Records : ~contains(EmptyTable, x)
    /\ HashRunning =>
        \A held \in {Held(CurTable)}, contained \in {ContainedIn(CurTable)} :
            /\ DOMAIN table = 0..(tableSize - 1)
            /\ HeldOnce(CurTable)
            /\ numItems = Cardinality(HeldIds(CurTable))
            /\ contained = {x \in Records : Holds(CurTable, x)}
            /\ \A x \in Records :
                   \A inserted \in {HashTable_insert(CurTable, x).after} :
                       /\ ContainedIn(inserted)
                              = contained \cup {y \in Records : ~notEqual(x, y)}
                       /\ x \notin contained => Held(inserted) = held \cup {x}
            /\ \A x \in contained :
                   \A removed \in {HashTable_remove(CurTable, x)} :
                       ContainedIn(removed)
                           = contained \ {y \in Records : ~notEqual(x, y)}
            /\ \A newSize \in ResizeArguments(CurTable) :
                   \A resized \in {HashTable_resize(CurTable, newSize)} :
                       /\ Held(resized) = held
                       /\ HeldOnce(resized)
                       /\ ContainedIn(resized) = contained

\* C26 witness: a table whose bucket array has grown and that holds so
\* few items that the next remove shrinks the array: the remove of a held
\* item halves the number of buckets and the items that stay move to
\* other buckets.
C26_Witness ==
    /\ HashRunning
    /\ tableSize > no_of_buckets
    /\ \E x \in Held(CurTable) :
           LET removed == HashTable_remove(CurTable, x)
           IN  /\ removed.tableSize < tableSize
               /\ Held(removed) = Held(CurTable) \ {x}
               /\ \E y \in Held(removed) :
                      getBucket(removed, y) # getBucket(CurTable, y)

\* C27: remove(x) with an item equal to x in the table runs to its end:
\* afterwards contains(x) is false, size() is one less and the other
\* items are the ones held before, each once; with no such item the
\* assertion link != NULL fails, size() is what it was and no item has
\* left the table.  A program stopped by the assertion has a size() equal
\* to the number of items held.
C27_Remove ==
    /\ HashRunning =>
        \A held \in {Held(CurTable)} :
        \A x \in Records :
            \A removed \in {HashTable_remove(CurTable, x)} :
                /\ Holds(CurTable, x) =>
                       /\ removed.failed = "none"
                       /\ ~contains(removed, x)
                       /\ ~Holds(removed, x)
                       /\ HashTable_size(removed) = HashTable_size(CurTable) - 1
                       /\ Held(removed) = {y \in held : notEqual(y, x)}
                       /\ HeldOnce(removed)
                /\ ~Holds(CurTable, x) =>
                       /\ removed.failed = "remove: link != NULL"
                       /\ HashTable_size(removed) = HashTable_size(CurTable)
                       /\ Held(removed) = held
    /\ hashAborted \in {"none", "remove: link != NULL"}
    /\ numItems = Cardinality(HeldIds(CurTable))

\* C27 witness: the program stopped by the assertion of remove, called on
\* a grown table that holds other items.
C27_Witness ==
    /\ hashAborted = "remove: link != NULL"
    /\ tableSize > no_of_buckets
    /\ numItems >= 1
    /\ HashTable_size(CurTable) = Cardinality(Held(CurTable))

\* the program has not been stopped in a call of the array
ArrayRunning == arrayAborted = "none"

\* C28: pushBack(x) runs to its end, size() is one more than before, x is
\* the item at index size()-1 and the item at every earlier index is the
\* one it was, when numItems < arraySize (the allocation is kept) and
\* when numItems == arraySize (a larger one is allocated); numItems never
\* exceeds arraySize.
C28_PushBack ==
    /\ arrayNumItems <= arraySize
    /\ DOMAIN array = 0..(arraySize - 1)
    /\ ArrayRunning =>
        \A x \in Items :
            \A pushed \in {pushBack(CurArray, x)} :
                /\ pushed.failed = "none"
                /\ DynamicArray_size(pushed) = DynamicArray_size(CurArray) + 1
                /\ subscript(pushed, DynamicArray_size(pushed) - 1).failed = "none"
                /\ pushed.array[DynamicArray_size(pushed) - 1] = x
                /\ \A i \in 0..(arrayNumItems - 1) : pushed.array[i] = array[i]
                /\ arrayNumItems < arraySize => pushed.arraySize = arraySize
                /\ arrayNumItems = arraySize => pushed.arraySize > arraySize
                /\ DOMAIN pushed.array = 0..(pushed.arraySize - 1)

\* C28 witness: a full array that holds an item other than 0, so that the
\* next pushBack allocates, and the array the push of another item gives.
C28_Witness ==
    /\ ArrayRunning
    /\ arrayNumItems = arraySize
    /\ NonZero(CurArray) # {}
    /\ \E x \in Items :
           /\ x \notin {array[i] : i \in NonZero(CurArray)}
           /\ pushBack(CurArray, x).arraySize > arraySize
           /\ pushBack(CurArray, x).array[arrayNumItems] = x

\* C29: the array the copy constructor builds has the size() of the
\* source and, at every index, the item of the source, whatever the
\* storage of the new object held before the constructor ran.
C29_Copy ==
    ArrayRunning =>
        \A garbage \in 0..MaxGarbage :
            \A b \in {DynamicArray_copy(CurArray, garbage)} :
                /\ b.failed = "none"
                /\ DynamicArray_size(b) = DynamicArray_size(CurArray)
                /\ \A i \in 0..(arrayNumItems - 1) : b.array[i] = array[i]

\* C30: insert(index, x) with 0 <= index <= size() runs to its end, size()
\* is one more than before, x is the item at index, the items before index
\* are where they were and every item from index on is one index further.
C30_Insert ==
    ArrayRunning =>
        \A idx \in 0..arrayNumItems, x \in Items :
            \A inserted \in {DynamicArray_insert(CurArray, idx, x)} :
                /\ inserted.failed = "none"
                /\ DynamicArray_size(inserted) = DynamicArray_size(CurArray) + 1
                /\ inserted.array[idx] = x
                /\ \A i \in 0..(idx - 1) : inserted.array[i] = array[i]
                /\ \A i \in idx..(arrayNumItems - 1) :
                       inserted.array[i + 1] = array[i]

\* the child of p on the side where n hangs in t, read in the map u
\* (p is the parent of n in t)
SameSideChild(t, u, p, n) ==
    IF t.nodes[p].left = n THEN u.nodes[p].left ELSE u.nodes[p].right

\* the map u is the map t rotated to the right at n: the left child of n
\* stands where n stood, n is its right child, its former right subtree is
\* the left subtree of n, the three parent pointers follow, and the
\* traversal in key order meets the same keys in the same order
RightRotated(t, u, n) ==
    LET l == t.nodes[n].left
        p == t.nodes[n].parent
        moved == t.nodes[l].right
    IN  /\ u.failed = "none"
        /\ IF p = NULL THEN u.root = l
           ELSE u.root = t.root /\ SameSideChild(t, u, p, n) = l
        /\ u.nodes[l].right = n
        /\ u.nodes[n].left = moved
        /\ u.nodes[l].parent = p
        /\ u.nodes[n].parent = l
        /\ moved # NULL => u.nodes[moved].parent = n
        /\ InOrderKeys(u) = InOrderKeys(t)

\* the mirror image: u is t rotated to the left at n
LeftRotated(t, u, n) ==
    LET r == t.nodes[n].right
        p == t.nodes[n].parent
        moved == t.nodes[r].left
    IN  /\ u.failed = "none"
        /\ IF p = NULL THEN u.root = r
           ELSE u.root = t.root /\ SameSideChild(t, u, p, n) = r
        /\ u.nodes[r].left = n
        /\ u.nodes[n].right = moved
        /\ u.nodes[r].parent = p
        /\ u.nodes[n].parent = r
        /\ moved # NULL => u.nodes[moved].parent = n
        /\ InOrderKeys(u) = InOrderKeys(t)

\* the nodes of t that have a left child, and those that have a right child
WithLeftChild(t) == {n \in Reachable(t) : t.nodes[n].left # NULL}

WithRightChild(t) == {n \in Reachable(t) : t.nodes[n].right # NULL}

\* C31: a right rotation at a node N with left child L puts L in the former
\* position of N (the same-side child of the former parent of N, or the
\* root if N was the root), makes N the right child of L and the former
\* right subtree of L the left subtree of N, updates the parent pointers of
\* L, N and the moved subtree, and leaves the in-order key sequence of the
\* whole tree unchanged; rotateLeft is the mirror image. Checked for a
\* rotation at every node of every reachable map, and for the second
\* rotation of a double rotation (at N after the opposite rotation at its
\* child).
C31_Rotation ==
    Running =>
        /\ \A n \in WithLeftChild(Cur) :
               /\ RightRotated(Cur, rotateRight(Cur, n), n)
               /\ \A t1 \in {rotateLeft(Cur, Cur.nodes[n].left)} :
                      t1.failed = "none"
                          => RightRotated(t1, rotateRight(t1, n), n)
        /\ \A n \in WithRightChild(Cur) :
               /\ LeftRotated(Cur, rotateLeft(Cur, n), n)
               /\ \A t1 \in {rotateRight(Cur, Cur.nodes[n].right)} :
                      t1.failed = "none"
                          => LeftRotated(t1, rotateLeft(t1, n), n)

\* a map where a right rotation rehangs the right child of a parent and
\* another moves a subtree, and where a left rotation rehangs the left child
\* of a parent and another moves a subtree
C31_Witness ==
    /\ Running
    /\ \E n \in WithLeftChild(Cur) :
           /\ Cur.nodes[n].parent # NULL
           /\ Cur.nodes[Cur.nodes[n].parent].right = n
           /\ RightRotated(Cur, rotateRight(Cur, n), n)
    /\ \E n \in WithLeftChild(Cur) :
           /\ Cur.nodes[Cur.nodes[n].left].right # NULL
           /\ RightRotated(Cur, rotateRight(Cur, n), n)
    /\ \E n \in WithRightChild(Cur) :
           /\ Cur.nodes[n].parent # NULL
           /\ Cur.nodes[Cur.nodes[n].parent].left = n
           /\ LeftRotated(Cur, rotateLeft(Cur, n), n)
    /\ \E n \in WithRightChild(Cur) :
           /\ Cur.nodes[Cur.nodes[n].right].left # NULL
           /\ LeftRotated(Cur, rotateLeft(Cur, n), n)

\* a call of update, operator[] or remove is running
InCall == frame.at # "main"

\* the whole call f.op(f.key, f.item) on the map f.from, as one step
WholeCall(f) ==
    IF f.op = "update" THEN update(f.from, f.key, f.item)
    ELSE IF f.op = "remove" THEN remove(f.from, f.key)
    ELSE index(f.from, f.key)[1]

\* a call followed one iteration at a time returns with the map that the
\* call taken as one step gives
CallsAgree ==
    [][InCall /\ frame'.at = "main"
         => [nodes |-> nodes', live |-> live', root |-> root',
             avlSize |-> avlSize', failed |-> aborted']
              = Relocated(WholeCall(frame))]_vars

\* C32: every update, operator[] and remove call on a map reached from the
\* empty map terminates: the descent in findNode reaches a node or NULL
\* (its loop ends), the climb of fixUp over the parent pointers, with the
\* rotations changing them on the way, reaches NULL past the root, and the
\* call returns.
C32_Terminates ==
    /\ (frame.at \in InFindNode)
           ~> (frame.at \in InFindNode /\ ~findNodeContinues(nodes, frame))
    /\ (frame.at \in InFixUp) ~> (frame.at = "fixUp" /\ frame.node = NULL)
    /\ InCall ~> ~InCall

\* a call of update whose climb in fixUp has rotated below the root and goes
\* on: the loop is at a node that has become the parent of a node which had
\* another parent when the call was made
C32_Witness ==
    /\ aborted = "none"
    /\ frame.op = "update"
    /\ frame.at = "fixUp"
    /\ frame.node # NULL
    /\ \E n \in frame.from.live :
           /\ nodes[n].parent = frame.node
           /\ frame.from.nodes[n].parent # frame.node

====
